---- MODULE Spec2Model ----
(***************************************************************************)
(* World-ranking handler of deadeye-aim-trainer (api/ranking, the last and *)
(* most complete revision in src/api/test-ranking.js, lines 772-1518) run  *)
(* against an Upstash Redis store.  Every awaited upstashCommand is one    *)
(* step of a request; the store executes each command atomically.          *)
(***************************************************************************)
EXTENDS Integers, Sequences, FiniteSets, TLC

(***************************************************************************)
(* Bounds of the model.                                                    *)
(***************************************************************************)
\* Size of the board.  The code keeps 50 entries ('49', '50', 51 in the
\* source); the model scales the board to TopN entries and writes every
\* occurrence of 49 / 50 / 51 as TopN-1 / TopN / TopN+1.
TopN == 2
\* Number of requests served in one behaviour.
MaxReqs == 3

(***************************************************************************)
(* Request inputs.                                                         *)
(***************************************************************************)
\* Efficiencies the requests carry.
Effs == {1, 2, 3}
\* The server's local date is one of two days (the day of the month is what
\* tells the two date strings apart).
Days == {1, 2}

\* Every name string of the model, in the byte order of the strings (digits
\* before capitals before small letters).
NameSeq == <<"42", "Alice", "Bob", "Carol", "b:c", "c">>
\* Player names of the requests on the game's own modes.
Names == {"Alice", "Bob", "Carol"}
\* Modes and names that contain the separator of the player key.
KeyModes == {"a", "a:b"}
KeyNames == {"b:c", "c"}
NameOrd(n) == CHOOSE i \in 1..Len(NameSeq) : NameSeq[i] = n

\* modes of ResetAll, in the order of the loop
KnownModes == <<"flick", "tracking", "grid">>
\* modes the requests of the model carry
ReqModes == {"flick"}
\* a mode that ResetAll does not know
OtherMode == "custom"
AllModes ==
    ReqModes \cup {KnownModes[i] : i \in 1..Len(KnownModes)} \cup {OtherMode}
        \cup KeyModes

\* A JSON value of a request body field: a number n ("int"), a number
\* n + 0.5 ("frac"), a string "n%" ("pct"), a string that is no number
\* ("str"), or an absent field ("undef").
RawInt(n) == [k |-> "int", v |-> n]
RawFrac(n) == [k |-> "frac", v |-> n]
RawPct(n) == [k |-> "pct", v |-> n]
RawStr == [k |-> "str", v |-> 0]
RawUndef == [k |-> "undef", v |-> 0]

\* parseInt / parseFloat yield NaN on a string that starts with no digit;
\* JSON.stringify writes NaN as null.
NaN == 0 - 1
Null == 0 - 2

\* parseInt(x): the integer part of a number or of the leading digits
parseInt(x) == IF x.k \in {"int", "frac", "pct"} THEN x.v ELSE NaN
\* parseFloat(x), in halves (2 * value), so that n + 0.5 is exact
parseFloat2(x) ==
    CASE x.k \in {"int", "pct"} -> 2 * x.v
      [] x.k = "frac" -> 2 * x.v + 1
      [] OTHER -> NaN
isNaN(n) == n = NaN

(***************************************************************************)
(* Serialized entries.  A member of a sorted set and the value of a player *)
(* key are JSON strings; the model keeps the string as the record of the   *)
(* fields it writes, in the order it writes them.                          *)
(***************************************************************************)
\* absent value (GET of a missing key, ZREVRANK of a missing member)
Nil == [kind |-> "nil"]

\* JSON.stringify of one number field
JsonNum(n) == IF n = NaN THEN Null ELSE n

\* JSON.stringify({name, score, accuracy, efficiency, date})
StringifyFull(name, score, accuracy, efficiency, date) ==
    [kind |-> "full", name |-> name, score |-> JsonNum(score),
     accuracy |-> JsonNum(accuracy), efficiency |-> JsonNum(efficiency),
     date |-> date]

\* JSON.stringify({name, efficiency})
StringifyReduced(name, efficiency) ==
    [kind |-> "reduced", name |-> name, efficiency |-> JsonNum(efficiency)]

\* a legacy member: the bare player name, no JSON
BareMember(name) == [kind |-> "bare", name |-> name]

\* JSON.parse throws on a string that is no JSON text; ParseOk says that the
\* string parses to an object
ParseOk(s) == s.kind \in {"full", "reduced"}
\* member strings that are JSON texts of a number: JSON.parse returns the
\* number, whose properties are all undefined
NumberNames == {"42"}
\* the string parses to a number: a score string, or a bare member whose text
\* is a number
ParsesAsNumber(s) == s.kind = "score" \/ (s.kind = "bare" /\ s.name \in NumberNames)
\* variant of Restringify that writes the name and the efficiency only
RestringifyReduced(s) == StringifyReduced(s.name, s.efficiency)
\* JSON.stringify(JSON.parse(s)) for a string s that parses
Restringify(s) ==
    IF s.kind = "full"
    THEN StringifyFull(s.name, s.score, s.accuracy, s.efficiency, s.date)
    ELSE StringifyReduced(s.name, s.efficiency)

(***************************************************************************)
(* Byte order of member strings (the store's tie-break for equal scores).  *)
(***************************************************************************)
RECURSIVE Digits(_)
\* character codes of the decimal digits of n >= 0
Digits(n) == IF n < 10 THEN <<48 + n>> ELSE Append(Digits(n \div 10), 48 + (n % 10))

\* character codes of a serialized integer field, up to the ',' or '}' after it
NumChars(n) ==
    IF n = Null THEN <<110, 117, 108, 108, 44>>
    ELSE Digits(n) \o <<44>>
\* the same for a field kept in halves: "95," or "95.5,"
HalfChars(h) ==
    IF h = Null THEN <<110, 117, 108, 108, 44>>
    ELSE Digits(h \div 2) \o (IF h % 2 = 1 THEN <<46, 53, 44>> ELSE <<44>>)

\* The characters that tell two member strings apart: the name (names differ in
\* their first character, coded 65, 66, ... in byte order), then the key after it ("efficiency" for
\* a reduced entry, "score" for a full one), then the field values.
MemberChars(m) ==
    CASE m.kind = "bare" -> <<64 + NameOrd(m.name)>>
      [] m.kind = "reduced" ->
            <<123, 64 + NameOrd(m.name), 101>> \o NumChars(m.efficiency)
      [] OTHER ->
            <<123, 64 + NameOrd(m.name), 115>> \o NumChars(m.score)
              \o HalfChars(m.accuracy) \o NumChars(m.efficiency) \o Digits(m.date)

RECURSIVE SeqLess(_, _)
SeqLess(a, b) ==
    IF a = <<>> THEN b # <<>>
    ELSE IF b = <<>> THEN FALSE
    ELSE IF Head(a) # Head(b) THEN Head(a) < Head(b)
    ELSE SeqLess(Tail(a), Tail(b))

(***************************************************************************)
(* Sorted sets of the store: sets of [member, score] with unique members,  *)
(* ordered by score and then by member bytes.  Scores are kept in halves.  *)
(***************************************************************************)
EntryLess(a, b) ==
    \/ a.score < b.score
    \/ a.score = b.score /\ SeqLess(MemberChars(a.member), MemberChars(b.member))

\* 0-based rank of entry e of z in ascending order
AscRank(z, e) == Cardinality({x \in z : EntryLess(x, e)})
\* z in ascending order
Ascending(z) ==
    [i \in 1..Cardinality(z) |-> CHOOSE e \in z : AscRank(z, e) = i - 1]
Reverse(s) == [i \in 1..Len(s) |-> s[Len(s) + 1 - i]]

\* a start/stop index of a range command, counted from the end when negative
Index(i, n) == IF i < 0 THEN n + i ELSE i
Range(s, start, stop) ==
    LET n == Len(s)
        lo == IF Index(start, n) < 0 THEN 0 ELSE Index(start, n)
        hi == IF Index(stop, n) >= n THEN n - 1 ELSE Index(stop, n)
    IN  IF lo > hi THEN <<>> ELSE SubSeq(s, lo + 1, hi + 1)

ZADD(z, score, member) ==
    {e \in z : e.member # member} \cup {[member |-> member, score |-> score]}
\* variant of ZREM that removes every member carrying the member's name
ZREMByName(z, member) == {e \in z : e.member.name # member.name}
ZREM(z, member) == {e \in z : e.member # member}
ZCARD(z) == Cardinality(z)
ZRANGE(z, start, stop) == Range(Ascending(z), start, stop)
\* variant of ZREVRANGE that reads the set in ascending order
ZREVRANGEAscending(z, start, stop) == Range(Ascending(z), start, stop)
ZREVRANGE(z, start, stop) == Range(Reverse(Ascending(z)), start, stop)
ZREMRANGEBYRANK(z, start, stop) ==
    LET gone == Range(Ascending(z), start, stop)
    IN  z \ {gone[i] : i \in 1..Len(gone)}
\* 0-based rank in descending order, Null for a member that is not in z
ZREVRANK(z, member) ==
    IF \E e \in z : e.member = member
    THEN LET e == CHOOSE x \in z : x.member = member
         IN  Cardinality(z) - 1 - AscRank(z, e)
    ELSE Null
\* variant of EXISTS that answers 1 for every key
EXISTSAlways(z) == 1
\* an empty sorted set is no key of the store
EXISTS(z) == IF z = {} THEN 0 ELSE 1

(***************************************************************************)
(* State.                                                                  *)
(***************************************************************************)
VARIABLES
    zsets,   \* store: key "ranking:<mode>" -> sorted set
    strs,    \* store: key "player:<mode>:<name>" -> serialized entry or Nil
    today,   \* the server's local date (new Date().toLocaleDateString)
    nreq,    \* number of requests received so far
    pc,      \* per request slot: the store command the handler awaits
    req,     \* per request slot: method, headers and body of the request
    loc,     \* per request slot: local variables of the handler
    resp,    \* per request slot: the response sent (status 0: none yet)
    log,     \* per request slot: the store commands issued, in order
    snap,    \* per request slot: the store when the request arrived
    ADMIN_PASSWORD, \* process.env.ADMIN_PASSWORD ("" when unset or empty)
    UPSTASH_URL,    \* process.env.UPSTASH_REDIS_REST_URL ("" when unset)
    UPSTASH_TOKEN,  \* process.env.UPSTASH_REDIS_REST_TOKEN ("" when unset)
    subs     \* history: the valid submissions recorded, oldest first

vars == <<zsets, strs, today, nreq, pc, req, loc, resp, log, snap, subs,
          ADMIN_PASSWORD, UPSTASH_URL, UPSTASH_TOKEN>>
store == <<zsets, strs>>
\* the environment of the process
env == <<ADMIN_PASSWORD, UPSTASH_URL, UPSTASH_TOKEN>>
\* the test of lines 14 and 819: !UPSTASH_URL || !UPSTASH_TOKEN is false
Configured == UPSTASH_URL # "" /\ UPSTASH_TOKEN # ""
\* a deployment with the store endpoint and the credential set
StoreEnv ==
    UPSTASH_URL = "https://db.upstash.io" /\ UPSTASH_TOKEN = "token"

\* request slots: requests in different slots may overlap in time
Procs == {1, 2}

RankingKey(mode) == "ranking:" \o mode
PlayerKey(mode, name) == "player:" \o mode \o ":" \o name
ZKeys == {RankingKey(m) : m \in AllModes}
SKeys == {PlayerKey(m, n) : m \in AllModes, n \in Names \cup KeyNames}
\* variant of TestKey that is the key of a player's record
TestKeyOfPlayer == PlayerKey("flick", "Alice")
\* the key the connection test writes (line 43)
TestKey == "test:key"
StrKeys == SKeys \cup {TestKey}

NoReq == [method |-> "none"]
NoLoc == [none |-> TRUE]
NoResp == [status |-> 0]
NoSnap == [none |-> TRUE]

Init ==
    /\ zsets = [k \in ZKeys |-> {}]
    /\ strs = [k \in StrKeys |-> Nil]
    /\ today = 1
    /\ nreq = 0
    /\ pc = [p \in Procs |-> "idle"]
    /\ req = [p \in Procs |-> NoReq]
    /\ loc = [p \in Procs |-> NoLoc]
    /\ resp = [p \in Procs |-> NoResp]
    /\ log = [p \in Procs |-> <<>>]
    /\ snap = [p \in Procs |-> NoSnap]
    /\ subs = <<>>
    /\ ADMIN_PASSWORD = ""
    /\ StoreEnv

\* A store that holds entries written before this revision of the handler was
\* deployed: reduced-field members {name, efficiency} under some ranking keys.
LegacyEntry == [member |-> StringifyReduced("Alice", 1), score |-> 2]
SeedModes == {{}, {"flick"}, {"grid", OtherMode}, {"flick", "tracking", "grid", OtherMode}}
SeedStores ==
    {[k \in ZKeys |-> IF k \in {RankingKey(m) : m \in ms} THEN {LegacyEntry} ELSE {}] :
        ms \in SeedModes}
\* values of the environment variable ADMIN_PASSWORD ("": unset or empty)
AdminEnvs == {"", "s3cret"}

\* Legacy members of the first format: the bare player name as the member,
\* the efficiency as the score.  One of the players is named "42".
BareEntries ==
    {[member |-> BareMember("Bob"), score |-> 4],
     [member |-> BareMember("42"), score |-> 6]}
\* the handler deployed on a store whose flick collection holds bare members
InitLegacy ==
    /\ \E seed \in SUBSET BareEntries :
           zsets = [k \in ZKeys |-> IF k = RankingKey("flick") THEN seed ELSE {}]
    /\ strs = [k \in StrKeys |-> Nil]
    /\ today = 1
    /\ nreq = 0
    /\ pc = [p \in Procs |-> "idle"]
    /\ req = [p \in Procs |-> NoReq]
    /\ loc = [p \in Procs |-> NoLoc]
    /\ resp = [p \in Procs |-> NoResp]
    /\ log = [p \in Procs |-> <<>>]
    /\ snap = [p \in Procs |-> NoSnap]
    /\ subs = <<>>
    /\ ADMIN_PASSWORD = ""
    /\ StoreEnv

\* the handler deployed on a store that may hold earlier entries, with or
\* without a configured admin password
InitAdmin ==
    /\ zsets \in SeedStores
    /\ strs = [k \in StrKeys |-> Nil]
    /\ today = 1
    /\ nreq = 0
    /\ pc = [p \in Procs |-> "idle"]
    /\ req = [p \in Procs |-> NoReq]
    /\ loc = [p \in Procs |-> NoLoc]
    /\ resp = [p \in Procs |-> NoResp]
    /\ log = [p \in Procs |-> <<>>]
    /\ snap = [p \in Procs |-> NoSnap]
    /\ subs = <<>>
    /\ ADMIN_PASSWORD \in AdminEnvs
    /\ StoreEnv

(***************************************************************************)
(* Plumbing shared by the handlers.                                        *)
(***************************************************************************)
\* the request in slot p arrives
Arrive(p, r) ==
    /\ pc[p] = "idle"
    /\ Configured
    /\ nreq < MaxReqs
    /\ nreq' = nreq + 1
    /\ req' = [req EXCEPT ![p] = r]
    /\ snap' = [snap EXCEPT ![p] = [zsets |-> zsets, strs |-> strs]]
    /\ UNCHANGED env

\* res.status(..).json(..): the handler returns
Respond(p, r) ==
    /\ pc' = [pc EXCEPT ![p] = "done"]
    /\ resp' = [resp EXCEPT ![p] = r]

\* await upstashCommand([cmd, ...]) is issued and answered
Issue(p, cmd) ==
    /\ log' = [log EXCEPT ![p] = Append(@, cmd)]
    /\ UNCHANGED env

\* await upstashCommand([cmd, ...]) is issued and throws (the store answers
\* with an error, lines 858-894): the command has no effect on the store
IssueFailed(p, cmd) ==
    /\ log' = [log EXCEPT ![p] = @ \o <<cmd, "error">>]
    /\ UNCHANGED env

Goto(p, label) == pc' = [pc EXCEPT ![p] = label]

\* the date changes
Tick ==
    /\ today + 1 \in Days
    /\ today' = today + 1
    /\ UNCHANGED <<zsets, strs, nreq, pc, req, loc, resp, log, snap, subs,
                   env>>

\* the response has been delivered; the slot is free again
Finish(p) ==
    /\ pc[p] = "done"
    /\ pc' = [pc EXCEPT ![p] = "idle"]
    /\ req' = [req EXCEPT ![p] = NoReq]
    /\ loc' = [loc EXCEPT ![p] = NoLoc]
    /\ resp' = [resp EXCEPT ![p] = NoResp]
    /\ log' = [log EXCEPT ![p] = <<>>]
    /\ snap' = [snap EXCEPT ![p] = NoSnap]
    /\ UNCHANGED <<zsets, strs, today, nreq, subs, env>>

(***************************************************************************)
(* POST: submit a score (source lines 1119-1381).                          *)
(***************************************************************************)
ModeInputs == ReqModes \cup {""}
NameInputs == Names \cup {""}
ScoreInputs == {RawInt(1000), RawInt(900), RawStr, RawUndef}
AccuracyInputs == {RawFrac(95), RawPct(90), RawStr, RawUndef}
EfficiencyInputs ==
    {RawInt(e) : e \in Effs} \cup {RawFrac(1), RawStr, RawUndef}

\* the test of line 1137 (a string accuracy was parsed at lines 1124-1127 and
\* is a number or NaN by then, never undefined)
MissingFields(mode, name, score, accuracy, efficiency) ==
    \/ mode = ""
    \/ name = ""
    \/ score = RawUndef
    \/ accuracy = RawUndef
    \/ efficiency = RawUndef
\* variant of InvalidNumbers that leaves the efficiency out
InvalidNumbersNoEfficiency(score, accuracy, efficiency) ==
    isNaN(score) \/ isNaN(accuracy)
\* the test of line 1147, on the coerced values
InvalidNumbers(score, accuracy, efficiency) ==
    isNaN(score) \/ isNaN(accuracy) \/ isNaN(efficiency)

\* a valid body, as the handler sees it after lines 1143-1145
ValidPost(r) ==
    /\ ~MissingFields(r.mode, r.name, r.score, r.accuracy, r.efficiency)
    /\ ~InvalidNumbers(parseInt(r.score), parseFloat2(r.accuracy), parseInt(r.efficiency))

\* variants of NotHigher: the comparison inverted, and the comparison strict
NotHigherInverted(efficiency, existing) ==
    efficiency >= (IF existing.efficiency = Null THEN 0 ELSE existing.efficiency)
NotHigherStrict(efficiency, existing) ==
    efficiency < (IF existing.efficiency = Null THEN 0 ELSE existing.efficiency)

\* efficiency <= existing.efficiency of line 1184 (null counts as 0)
NotHigher(efficiency, existing) ==
    efficiency <= (IF existing.efficiency = Null THEN 0 ELSE existing.efficiency)

\* scoreData of lines 1203-1209, serialized
ScoreData(p) ==
    StringifyFull(req[p].name, loc[p].score, loc[p].accuracy, loc[p].efficiency, today)

\* the score argument of ZADD: efficiency.toString(), in halves
ScoreOfInt(n) == 2 * n
\* the score string of a WITHSCORES reply
ScoreStr(h) == [kind |-> "score", halves |-> h]
\* parseInt of an element of a reply: the integer part of a score string or
\* of a member that is a number, NaN for any other string and for undefined
parseIntScore(s) ==
    CASE s.kind = "score" -> s.halves \div 2
      [] s.kind = "bare" /\ s.name = "42" -> 42
      [] OTHER -> NaN

\* a WITHSCORES reply: member, score, member, score, ...
WithScores(es) ==
    [i \in 1..(2 * Len(es)) |->
        IF i % 2 = 1 THEN es[(i + 1) \div 2].member
        ELSE ScoreStr(es[i \div 2].score)]

\* number of entries the verification of line 1293 reads ('0', '9')
VerifyTop == 10

\* The request bodies of the model: every player with every efficiency, and
\* one body with each field in turn taking every input value.
PostBase == [method |-> "POST", mode |-> "flick", name |-> "Alice",
             score |-> RawInt(1000), accuracy |-> RawFrac(95), efficiency |-> RawInt(1)]
PostRequests ==
    {[PostBase EXCEPT !.name = n, !.efficiency = RawInt(e)] :
        n \in Names, e \in Effs}
    \cup {[PostBase EXCEPT !.mode = m] : m \in ModeInputs}
    \cup {[PostBase EXCEPT !.name = n] : n \in NameInputs}
    \cup {[PostBase EXCEPT !.score = x] : x \in ScoreInputs}
    \cup {[PostBase EXCEPT !.accuracy = x] : x \in AccuracyInputs}
    \cup {[PostBase EXCEPT !.efficiency = x] : x \in EfficiencyInputs}

\* lines 1121-1155: the body is validated and coerced; track says whether the
\* history variable subs records the submission
StartPostOf(p, r, track) ==
    /\ Arrive(p, r)
    /\ IF MissingFields(r.mode, r.name, r.score, r.accuracy, r.efficiency)
       THEN /\ Respond(p, [status |-> 400, error |-> "Missing required fields"])
            /\ UNCHANGED <<loc, subs>>
       ELSE IF InvalidNumbers(parseInt(r.score), parseFloat2(r.accuracy),
                              parseInt(r.efficiency))
       THEN /\ Respond(p, [status |-> 400, error |-> "Invalid numeric values"])
            /\ UNCHANGED <<loc, subs>>
       ELSE /\ Goto(p, "post_get")
            /\ loc' = [loc EXCEPT ![p] =
                         [score |-> parseInt(r.score),
                          accuracy |-> parseFloat2(r.accuracy),
                          efficiency |-> parseInt(r.efficiency),
                          existing |-> Nil, scoreData |-> Nil,
                          playerRank |-> 0]]
            /\ subs' = IF track
                       THEN Append(subs, [mode |-> r.mode, name |-> r.name,
                                          efficiency |-> parseInt(r.efficiency)])
                       ELSE subs
            /\ UNCHANGED resp
    /\ UNCHANGED <<zsets, strs, today, log>>

StartPost(p) == \E r \in PostRequests : StartPostOf(p, r, FALSE)
\* the same, each valid submission recorded in subs
StartPostTracked(p) == \E r \in PostRequests : StartPostOf(p, r, TRUE)
\* submissions of two players, for requests that overlap
ConcRequests ==
    {[PostBase EXCEPT !.efficiency = RawInt(e)] : e \in Effs}
    \cup {[PostBase EXCEPT !.name = "Bob"]}
StartPostConc(p) == \E r \in ConcRequests : StartPostOf(p, r, FALSE)

\* GET playerKey (line 1158) and the decision of lines 1161-1200
PostGet(p) ==
    /\ pc[p] = "post_get"
    /\ Issue(p, "GET")
    /\ LET existingValue == strs[PlayerKey(req[p].mode, req[p].name)]
           existing == IF existingValue # Nil /\ ParseOk(existingValue)
                       THEN existingValue ELSE Nil
       IN  IF existing # Nil
           THEN IF NotHigher(loc[p].efficiency, existing)
                THEN /\ Respond(p, [status |-> 200, success |-> TRUE, updated |-> FALSE])
                     /\ UNCHANGED loc
                ELSE /\ Goto(p, "post_zrem")
                     /\ loc' = [loc EXCEPT ![p].existing = existing]
                     /\ UNCHANGED resp
           ELSE /\ Goto(p, "post_zadd")
                /\ loc' = [loc EXCEPT ![p].scoreData = ScoreData(p)]
                /\ UNCHANGED resp
    /\ UNCHANGED <<zsets, strs, today, nreq, req, snap, subs>>

\* ZREM key JSON.stringify(existing) (line 1194)
\* a variant that goes on to the SET without the ZADD
PostZremSkipsZadd(p) ==
    /\ pc[p] = "post_zrem"
    /\ Issue(p, "ZREM")
    /\ zsets' = [zsets EXCEPT ![RankingKey(req[p].mode)] =
                   ZREM(@, Restringify(loc[p].existing))]
    /\ loc' = [loc EXCEPT ![p].scoreData = ScoreData(p)]
    /\ Goto(p, "post_set")
    /\ UNCHANGED <<strs, today, nreq, req, resp, snap, subs>>

PostZrem(p) ==
    /\ pc[p] = "post_zrem"
    /\ Issue(p, "ZREM")
    /\ zsets' = [zsets EXCEPT ![RankingKey(req[p].mode)] =
                   ZREM(@, Restringify(loc[p].existing))]
    /\ loc' = [loc EXCEPT ![p].scoreData = ScoreData(p)]
    /\ Goto(p, "post_zadd")
    /\ UNCHANGED <<strs, today, nreq, req, resp, snap, subs>>

\* ZADD key efficiency scoreDataStr (line 1218); the reply is 0 or 1
PostZadd(p) ==
    /\ pc[p] = "post_zadd"
    /\ Issue(p, "ZADD")
    /\ zsets' = [zsets EXCEPT ![RankingKey(req[p].mode)] =
                   ZADD(@, ScoreOfInt(loc[p].efficiency), loc[p].scoreData)]
    /\ Goto(p, "post_set")
    /\ UNCHANGED <<strs, today, nreq, req, loc, resp, snap, subs>>

\* SET playerKey scoreDataStr (line 1257)
PostSet(p) ==
    /\ pc[p] = "post_set"
    /\ Issue(p, "SET")
    /\ strs' = [strs EXCEPT ![PlayerKey(req[p].mode, req[p].name)] = loc[p].scoreData]
    /\ Goto(p, "post_zcard")
    /\ UNCHANGED <<zsets, today, nreq, req, loc, resp, snap, subs>>

\* ZCARD key and the test of line 1268
PostZcard(p) ==
    /\ pc[p] = "post_zcard"
    /\ Issue(p, "ZCARD")
    /\ IF ZCARD(zsets[RankingKey(req[p].mode)]) > TopN
       THEN Goto(p, "post_trim")
       ELSE Goto(p, "post_rank")
    /\ UNCHANGED <<zsets, strs, today, nreq, req, loc, resp, snap, subs>>

\* the trim of the earlier revisions of the handler (lines 590 and 747):
\* ZREMRANGEBYRANK key '0' '-51'
TrimEarlier(z) == ZREMRANGEBYRANK(z, 0, 0 - (TopN + 1))
\* variant of Trim that starts one rank later
TrimOffByOne(z) == ZREMRANGEBYRANK(z, TopN + 1, 0 - 1)

\* the trim of line 1269: ZREMRANGEBYRANK key '50' '-1'
Trim(z) == ZREMRANGEBYRANK(z, TopN, 0 - 1)

PostTrim(p) ==
    /\ pc[p] = "post_trim"
    /\ Issue(p, "ZREMRANGEBYRANK")
    /\ zsets' = [zsets EXCEPT ![RankingKey(req[p].mode)] = Trim(@)]
    /\ Goto(p, "post_rank")
    /\ UNCHANGED <<strs, today, nreq, req, loc, resp, snap, subs>>

\* variants of PlayerRank: without the null test (null + 1 is 1), and 0-based
PlayerRankNoNullTest(rankValue) == IF rankValue = Null THEN 1 ELSE rankValue + 1
PlayerRankZeroBased(rankValue) == IF rankValue # Null THEN rankValue ELSE TopN + 1

\* playerRank of lines 1279-1280
PlayerRank(rankValue) == IF rankValue # Null THEN rankValue + 1 ELSE TopN + 1

\* ZREVRANK key scoreDataStr (line 1277)
PostRank(p) ==
    /\ pc[p] = "post_rank"
    /\ Issue(p, "ZREVRANK")
    /\ loc' = [loc EXCEPT ![p].playerRank =
                 PlayerRank(ZREVRANK(zsets[RankingKey(req[p].mode)], loc[p].scoreData))]
    /\ Goto(p, "post_vcard")
    /\ UNCHANGED <<zsets, strs, today, nreq, req, resp, snap, subs>>

\* the verification reads: ZCARD (line 1288)
PostVerifyCard(p) ==
    /\ pc[p] = "post_vcard"
    /\ Issue(p, "ZCARD")
    /\ Goto(p, "post_vrange")
    /\ UNCHANGED <<zsets, strs, today, nreq, req, loc, resp, snap, subs>>

\* found of lines 1331-1346: a member at an even index parses and carries the
\* submitted name and efficiency
FoundIn(verifyScores, name, efficiency) ==
    \E i \in 1..Len(verifyScores) :
        /\ i % 2 = 1
        /\ ParseOk(verifyScores[i])
        /\ verifyScores[i].name = name
        /\ verifyScores[i].efficiency = efficiency

PostResult(p) == [status |-> 200, success |-> TRUE, rank |-> loc[p].playerRank,
                  updated |-> TRUE]

\* ZREVRANGE key 0 9 WITHSCORES (line 1293)
PostVerifyRange(p) ==
    /\ pc[p] = "post_vrange"
    /\ Issue(p, "ZREVRANGE")
    /\ LET verifyScores ==
               WithScores(ZREVRANGE(zsets[RankingKey(req[p].mode)], 0, VerifyTop - 1))
       IN  IF Len(verifyScores) > 0
              /\ ~FoundIn(verifyScores, req[p].name, loc[p].efficiency)
           THEN Goto(p, "post_zscore") /\ UNCHANGED resp
           ELSE Respond(p, PostResult(p))
    /\ UNCHANGED <<zsets, strs, today, nreq, req, loc, snap, subs>>

\* variant of PostZscore that returns without sending the response
PostZscoreNoResponse(p) ==
    /\ pc[p] = "post_zscore"
    /\ Issue(p, "ZSCORE")
    /\ Goto(p, "done")
    /\ UNCHANGED <<zsets, strs, today, nreq, req, loc, resp, snap, subs>>

\* ZSCORE key scoreDataStr (line 1366), then the response of line 1376
PostZscore(p) ==
    /\ pc[p] = "post_zscore"
    /\ Issue(p, "ZSCORE")
    /\ Respond(p, PostResult(p))
    /\ UNCHANGED <<zsets, strs, today, nreq, req, loc, snap, subs>>

\* the handler after validation
PostSteps(p) ==
    \/ PostGet(p) \/ PostZrem(p) \/ PostZadd(p) \/ PostSet(p)
    \/ PostZcard(p) \/ PostTrim(p) \/ PostRank(p) \/ PostVerifyCard(p)
    \/ PostVerifyRange(p) \/ PostZscore(p)

Post(p) == StartPost(p) \/ PostSteps(p)

\* The store after the whole POST handler (lines 1121-1273) has run alone on
\* store st with request r: the validation, GET, the comparison, ZREM of the
\* re-serialized prior record, ZADD, SET, ZCARD and the trim.
SubmitOn(st, r) ==
    IF ~ValidPost(r) THEN st
    ELSE LET key == RankingKey(r.mode)
             playerKey == PlayerKey(r.mode, r.name)
             efficiency == parseInt(r.efficiency)
             existingValue == st.strs[playerKey]
             existing == IF existingValue # Nil /\ ParseOk(existingValue)
                         THEN existingValue ELSE Nil
             scoreData == StringifyFull(r.name, parseInt(r.score),
                                        parseFloat2(r.accuracy), efficiency, today)
             removed == IF existing # Nil
                        THEN ZREM(st.zsets[key], Restringify(existing))
                        ELSE st.zsets[key]
             added == ZADD(removed, ScoreOfInt(efficiency), scoreData)
         IN  IF existing # Nil /\ NotHigher(efficiency, existing) THEN st
             ELSE [zsets |-> [st.zsets EXCEPT ![key] =
                                 IF ZCARD(added) > TopN THEN Trim(added) ELSE added],
                   strs |-> [st.strs EXCEPT ![playerKey] = scoreData]]

(***************************************************************************)
(* GET: fetch the ranking of a mode (source lines 911-1116).               *)
(***************************************************************************)
\* scores[i] of JavaScript (0-based; undefined beyond the end)
Undefined == [kind |-> "undefined"]
At(scores, i) == IF i < Len(scores) THEN scores[i + 1] ELSE Undefined

\* One entry of the response, lines 1079-1107, as res.json writes it: a
\* property whose value is undefined is left out, NaN is written as null.
\* A member that parses to an object gives its fields; a member that parses
\* to a number gives undefined for every field; a member that does not
\* parse gives the legacy entry {name: dataStr, efficiency}.
DecodePair(dataStr, efficiencyStr) ==
    LET efficiency == JsonNum(parseIntScore(efficiencyStr))
    IN  CASE ParseOk(dataStr) /\ dataStr.kind = "full" ->
                 [name |-> dataStr.name, score |-> dataStr.score,
                  accuracy |-> dataStr.accuracy, efficiency |-> efficiency,
                  date |-> dataStr.date]
          [] ParseOk(dataStr) /\ dataStr.kind # "full" ->
                 [name |-> dataStr.name, efficiency |-> efficiency]
          [] ParsesAsNumber(dataStr) \/ dataStr = Undefined ->
                 [efficiency |-> efficiency]
          [] OTHER -> [name |-> dataStr.name, efficiency |-> efficiency]

RECURSIVE ParseLoop(_, _, _)
\* variant of ParseLoop without the test of line 1074
ParseLoopNoBreak(scores, i, rankings) ==
    IF i >= Len(scores) THEN rankings
    ELSE ParseLoop(scores, i + 2,
                   Append(rankings, DecodePair(At(scores, i), At(scores, i + 1))))
\* the loop of lines 1073-1108 from index i on: it stops at the end of the
\* reply, and at a last element that has no partner (line 1074)
ParseLoop(scores, i, rankings) ==
    IF i >= Len(scores) THEN rankings
    ELSE IF i + 1 >= Len(scores) THEN rankings
    ELSE ParseLoop(scores, i + 2,
                   Append(rankings, DecodePair(At(scores, i), At(scores, i + 1))))

\* the rankings array built from a flat reply
Decode(scores) == ParseLoop(scores, 0, <<>>)

\* const mode = queryParams.mode || req.query?.mode || 'flick'
QueryMode(m) == IF m = "" THEN "flick" ELSE m

GetRequests ==
    {[method |-> "GET", mode |-> m, test |-> FALSE] : m \in ModeInputs}
    \cup {[method |-> "GET", mode |-> "flick", test |-> TRUE]}

StartGet(p) ==
    \E r \in GetRequests :
        /\ Arrive(p, r)
        /\ Goto(p, IF r.test THEN "test_ping" ELSE "get_range")
        /\ loc' = [loc EXCEPT ![p] = [mode |-> QueryMode(r.mode), scores |-> <<>>]]
        /\ UNCHANGED <<zsets, strs, today, resp, log, subs>>

\* test mode, lines 919-954: PING, EXISTS ranking:flick, ZREVRANGE 0 4
TestPing(p) ==
    /\ pc[p] = "test_ping"
    /\ Issue(p, "PING")
    /\ Goto(p, "test_exists")
    /\ UNCHANGED <<zsets, strs, today, nreq, req, loc, resp, snap, subs>>

TestExists(p) ==
    /\ pc[p] = "test_exists"
    /\ Issue(p, "EXISTS")
    /\ Goto(p, "test_range")
    /\ UNCHANGED <<zsets, strs, today, nreq, req, loc, resp, snap, subs>>

TestRange(p) ==
    /\ pc[p] = "test_range"
    /\ Issue(p, "ZREVRANGE")
    /\ Respond(p, [status |-> 200, test |-> TRUE,
                   exists |-> EXISTS(zsets[RankingKey("flick")]),
                   zrevrange |-> WithScores(ZREVRANGE(zsets[RankingKey("flick")], 0, 4))])
    /\ UNCHANGED <<zsets, strs, today, nreq, req, loc, snap, subs>>

\* lines 962-1115 on the reply scores of ZREVRANGE key 0 49 WITHSCORES
GetRangeOf(p, scores) ==
    /\ pc[p] = "get_range"
    /\ Issue(p, "ZREVRANGE")
    /\ loc' = [loc EXCEPT ![p].scores = scores]
    /\ IF Len(scores) = 0
       THEN Goto(p, "get_exists") /\ UNCHANGED resp
       ELSE Respond(p, [status |-> 200, rankings |-> Decode(scores)])
    /\ UNCHANGED <<zsets, strs, today, nreq, req, snap, subs>>

\* ZREVRANGE key 0 49 WITHSCORES (line 962), answered by the store
GetRange(p) ==
    GetRangeOf(p, WithScores(ZREVRANGE(zsets[RankingKey(loc[p].mode)], 0, TopN - 1)))

\* variant of EmptyRanking that reports an empty collection as an error
EmptyRankingNotFound == [status |-> 404, error |-> "No rankings found"]
\* res.status(200).json({ rankings: [] }) of line 1066
EmptyRanking == [status |-> 200, rankings |-> <<>>]

\* The diagnosis of an empty reply, lines 1028-1067, one store command per
\* step: EXISTS key (line 1030); when the key exists ZCARD key (line 1038) and
\* ZRANGE key 0 -1 WITHSCORES (line 1044), whose reply (the whole set,
\* ascending) replaces an empty scores; when scores is still empty EXISTS key
\* (line 1064) and the empty ranking.
GetEmpty(p) ==
    /\ pc[p] \in {"get_exists", "get_zcard", "get_zrange", "get_exists2"}
    /\ LET z == zsets[RankingKey(loc[p].mode)]
           scores == WithScores(ZRANGE(z, 0, 0 - 1))
       IN  CASE pc[p] = "get_exists" ->
                  /\ Issue(p, "EXISTS")
                  /\ Goto(p, IF EXISTS(z) = 1 THEN "get_zcard" ELSE "get_exists2")
                  /\ UNCHANGED <<loc, resp>>
             [] pc[p] = "get_zcard" ->
                  /\ Issue(p, "ZCARD")
                  /\ Goto(p, "get_zrange")
                  /\ UNCHANGED <<loc, resp>>
             [] pc[p] = "get_zrange" ->
                  /\ Issue(p, "ZRANGE")
                  /\ loc' = [loc EXCEPT ![p].scores = scores]
                  /\ IF Len(scores) = 0
                     THEN Goto(p, "get_exists2") /\ UNCHANGED resp
                     ELSE Respond(p, [status |-> 200, rankings |-> Decode(scores)])
             [] OTHER ->
                  /\ Issue(p, "EXISTS")
                  /\ Respond(p, EmptyRanking)
                  /\ UNCHANGED loc
    /\ UNCHANGED <<zsets, strs, today, nreq, req, snap, subs>>

Get(p) ==
    \/ StartGet(p) \/ TestPing(p) \/ TestExists(p) \/ TestRange(p)
    \/ GetRange(p) \/ GetEmpty(p)

(***************************************************************************)
(* DELETE: remove one score, or reset all rankings (lines 1384-1445).      *)
(***************************************************************************)
\* process.env.ADMIN_PASSWORD || 'hiro0419'
adminPassword == IF ADMIN_PASSWORD = "" THEN "hiro0419" ELSE ADMIN_PASSWORD
AuthHeaders == {"", "Bearer hiro0419", "Bearer guess", "Bearer s3cret"}
\* the test of lines 1388 and 1452
Unauthorized(authHeader) == authHeader = "" \/ authHeader # "Bearer " \o adminPassword

Unauthorized401 == [status |-> 401, error |-> "Unauthorized"]
Missing400 == [status |-> 400, error |-> "Missing required fields"]

DeleteBase == [method |-> "DELETE", authHeader |-> "Bearer hiro0419",
               mode |-> "flick", name |-> "Alice", efficiency |-> RawInt(1),
               resetAll |-> FALSE]
DeleteRequests ==
    {[DeleteBase EXCEPT !.name = n] : n \in NameInputs}
    \cup {[DeleteBase EXCEPT !.resetAll = TRUE]}
    \cup {[DeleteBase EXCEPT !.authHeader = h] : h \in AuthHeaders}
    \cup {[DeleteBase EXCEPT !.efficiency = x] : x \in {RawInt(1), RawStr, RawUndef}}

\* lines 1385-1436 on request r
StartDeleteOf(p, r) ==
    /\ Arrive(p, r)
    /\ IF Unauthorized(r.authHeader)
       THEN Respond(p, Unauthorized401) /\ UNCHANGED loc
       ELSE IF r.resetAll
       THEN /\ Goto(p, "reset_exists")
            /\ loc' = [loc EXCEPT ![p] = [i |-> 1, deletedKeys |-> <<>>]]
            /\ UNCHANGED resp
       ELSE IF r.mode = "" \/ r.name = "" \/ r.efficiency = RawUndef
       THEN Respond(p, Missing400) /\ UNCHANGED loc
       ELSE /\ Goto(p, "delete_zrem")
            /\ loc' = [loc EXCEPT ![p] =
                         [scoreDataStr |->
                            StringifyReduced(r.name, parseInt(r.efficiency))]]
            /\ UNCHANGED resp
    /\ UNCHANGED <<zsets, strs, today, log, subs>>

StartDelete(p) == \E r \in DeleteRequests : StartDeleteOf(p, r)

\* after mode i of the loop of line 1399: the next mode, or the response
ResetNext(p, deletedKeys) ==
    IF loc[p].i < Len(KnownModes)
    THEN /\ Goto(p, "reset_exists")
         /\ loc' = [loc EXCEPT ![p] = [i |-> loc[p].i + 1, deletedKeys |-> deletedKeys]]
         /\ UNCHANGED resp
    ELSE /\ Respond(p, [status |-> 200, success |-> TRUE, deletedKeys |-> deletedKeys])
         /\ loc' = [loc EXCEPT ![p].deletedKeys = deletedKeys]

\* EXISTS key (line 1402)
ResetExists(p) ==
    /\ pc[p] = "reset_exists"
    /\ Issue(p, "EXISTS")
    /\ IF EXISTS(zsets[RankingKey(KnownModes[loc[p].i])]) = 1
       THEN Goto(p, "reset_del") /\ UNCHANGED <<loc, resp>>
       ELSE ResetNext(p, loc[p].deletedKeys)
    /\ UNCHANGED <<zsets, strs, today, nreq, req, snap, subs>>

\* variant of ResetDel that deletes the player records as well
ResetDelWithPlayers(p) ==
    /\ pc[p] = "reset_del"
    /\ Issue(p, "DEL")
    /\ zsets' = [zsets EXCEPT ![RankingKey(KnownModes[loc[p].i])] = {}]
    /\ strs' = [k \in StrKeys |-> Nil]
    /\ ResetNext(p, Append(loc[p].deletedKeys, RankingKey(KnownModes[loc[p].i])))
    /\ UNCHANGED <<today, nreq, req, snap, subs>>

\* DEL key (line 1407)
ResetDel(p) ==
    /\ pc[p] = "reset_del"
    /\ Issue(p, "DEL")
    /\ zsets' = [zsets EXCEPT ![RankingKey(KnownModes[loc[p].i])] = {}]
    /\ ResetNext(p, Append(loc[p].deletedKeys, RankingKey(KnownModes[loc[p].i])))
    /\ UNCHANGED <<strs, today, nreq, req, snap, subs>>

\* ZREM key scoreDataStr (line 1439)
DeleteZrem(p) ==
    /\ pc[p] = "delete_zrem"
    /\ Issue(p, "ZREM")
    /\ zsets' = [zsets EXCEPT ![RankingKey(req[p].mode)] = ZREM(@, loc[p].scoreDataStr)]
    /\ Goto(p, "delete_del")
    /\ UNCHANGED <<strs, today, nreq, req, loc, resp, snap, subs>>

\* DEL playerKey (line 1442)
DeleteDel(p) ==
    /\ pc[p] = "delete_del"
    /\ Issue(p, "DEL")
    /\ strs' = [strs EXCEPT ![PlayerKey(req[p].mode, req[p].name)] = Nil]
    /\ Respond(p, [status |-> 200, success |-> TRUE, message |-> "Score deleted"])
    /\ UNCHANGED <<zsets, today, nreq, req, loc, snap, subs>>

Delete(p) ==
    \/ StartDelete(p) \/ ResetExists(p) \/ ResetDel(p) \/ DeleteZrem(p) \/ DeleteDel(p)

(***************************************************************************)
(* PUT: edit a score (lines 1448-1501).                                    *)
(***************************************************************************)
PutBase == [method |-> "PUT", authHeader |-> "Bearer hiro0419", mode |-> "flick",
            oldName |-> "Alice", oldEfficiency |-> RawInt(1), newName |-> "Alice",
            newScore |-> RawInt(900), newAccuracy |-> RawPct(90),
            newEfficiency |-> RawInt(1)]
PutRequests ==
    {[PutBase EXCEPT !.oldName = o, !.newName = n, !.newEfficiency = x] :
        o \in {"Alice", "Bob"}, n \in {"Alice", "Bob"}, x \in {RawInt(2), RawFrac(1)}}
    \cup {[PutBase EXCEPT !.authHeader = h] : h \in AuthHeaders}
    \cup {[PutBase EXCEPT !.newName = n] : n \in {"Alice", ""}}
    \cup {[PutBase EXCEPT !.newEfficiency = x] : x \in {RawStr, RawUndef}}
    \cup {[PutBase EXCEPT !.newScore = x] : x \in {RawStr, RawUndef}}
    \cup {[PutBase EXCEPT !.oldEfficiency = x] : x \in {RawStr, RawUndef}}

\* the test of line 1458
MissingPutFields(r) ==
    \/ r.mode = "" \/ r.oldName = "" \/ r.oldEfficiency = RawUndef
    \/ r.newName = "" \/ r.newScore = RawUndef \/ r.newAccuracy = RawUndef
    \/ r.newEfficiency = RawUndef

\* newEfficiency.toString() as the score argument of ZADD, in halves; the
\* store rejects an argument that is no number
IsFloat(x) == x.k \in {"int", "frac"}
ScoreOfRaw(x) == IF x.k = "frac" THEN 2 * x.v + 1 ELSE 2 * x.v

\* lines 1449-1480 on request r
StartPutOf(p, r) ==
    /\ Arrive(p, r)
    /\ IF Unauthorized(r.authHeader)
       THEN Respond(p, Unauthorized401) /\ UNCHANGED loc
       ELSE IF MissingPutFields(r)
       THEN Respond(p, Missing400) /\ UNCHANGED loc
       ELSE /\ Goto(p, "put_zrem")
            /\ loc' = [loc EXCEPT ![p] =
                 [oldScoreDataStr |->
                      StringifyReduced(r.oldName, parseInt(r.oldEfficiency)),
                  newScoreDataStr |->
                      StringifyFull(r.newName, parseInt(r.newScore),
                                    parseFloat2(r.newAccuracy),
                                    parseInt(r.newEfficiency), today)]]
            /\ UNCHANGED resp
    /\ UNCHANGED <<zsets, strs, today, log, subs>>

StartPut(p) == \E r \in PutRequests : StartPutOf(p, r)

\* ZREM key oldScoreDataStr (line 1483)
PutZrem(p) ==
    /\ pc[p] = "put_zrem"
    /\ Issue(p, "ZREM")
    /\ zsets' = [zsets EXCEPT ![RankingKey(req[p].mode)] = ZREM(@, loc[p].oldScoreDataStr)]
    /\ Goto(p, "put_zadd")
    /\ UNCHANGED <<strs, today, nreq, req, loc, resp, snap, subs>>

\* the catch of lines 1505-1517
Error500 == [status |-> 500, error |-> "Internal server error"]

\* ZADD key newEfficiency.toString() newScoreDataStr (line 1486)
PutZadd(p) ==
    /\ pc[p] = "put_zadd"
    /\ IF IsFloat(req[p].newEfficiency)
       THEN /\ Issue(p, "ZADD")
            /\ zsets' = [zsets EXCEPT ![RankingKey(req[p].mode)] =
                           ZADD(@, ScoreOfRaw(req[p].newEfficiency), loc[p].newScoreDataStr)]
            /\ Goto(p, IF req[p].oldName # req[p].newName THEN "put_del" ELSE "put_set")
            /\ UNCHANGED resp
       ELSE /\ IssueFailed(p, "ZADD")
            /\ Respond(p, Error500)
            /\ UNCHANGED zsets
    /\ UNCHANGED <<strs, today, nreq, req, loc, snap, subs>>

\* a variant that leaves the old player's record in place
PutDelKeepsOld(p) ==
    /\ pc[p] = "put_del"
    /\ Issue(p, "DEL")
    /\ Goto(p, "put_set")
    /\ UNCHANGED <<zsets, strs, today, nreq, req, loc, resp, snap, subs>>

\* DEL oldPlayerKey (line 1490), when the name changes
PutDel(p) ==
    /\ pc[p] = "put_del"
    /\ Issue(p, "DEL")
    /\ strs' = [strs EXCEPT ![PlayerKey(req[p].mode, req[p].oldName)] = Nil]
    /\ Goto(p, "put_set")
    /\ UNCHANGED <<zsets, today, nreq, req, loc, resp, snap, subs>>

\* SET newPlayerKey newScoreDataStr (line 1492)
PutSet(p) ==
    /\ pc[p] = "put_set"
    /\ Issue(p, "SET")
    /\ strs' = [strs EXCEPT ![PlayerKey(req[p].mode, req[p].newName)] =
                  loc[p].newScoreDataStr]
    /\ Goto(p, "put_zcard")
    /\ UNCHANGED <<zsets, today, nreq, req, loc, resp, snap, subs>>

PutResult == [status |-> 200, success |-> TRUE, message |-> "Score updated"]

\* ZCARD key and the test of line 1496
PutZcard(p) ==
    /\ pc[p] = "put_zcard"
    /\ Issue(p, "ZCARD")
    /\ IF ZCARD(zsets[RankingKey(req[p].mode)]) > TopN
       THEN Goto(p, "put_trim") /\ UNCHANGED resp
       ELSE Respond(p, PutResult)
    /\ UNCHANGED <<zsets, strs, today, nreq, req, loc, snap, subs>>

\* ZREMRANGEBYRANK key 50 -1 (line 1497)
PutTrim(p) ==
    /\ pc[p] = "put_trim"
    /\ Issue(p, "ZREMRANGEBYRANK")
    /\ zsets' = [zsets EXCEPT ![RankingKey(req[p].mode)] = Trim(@)]
    /\ Respond(p, PutResult)
    /\ UNCHANGED <<strs, today, nreq, req, loc, snap, subs>>

Put(p) ==
    \/ StartPut(p) \/ PutZrem(p) \/ PutZadd(p) \/ PutDel(p) \/ PutSet(p)
    \/ PutZcard(p) \/ PutTrim(p)

(***************************************************************************)
(* Store failure: upstashCommand throws (lines 858-905).                   *)
(***************************************************************************)
\* the store command a handler at a label awaits
CmdAt(label) ==
    CASE label \in {"post_get"} -> "GET"
      [] label \in {"post_zrem", "delete_zrem", "put_zrem"} -> "ZREM"
      [] label \in {"post_zadd", "put_zadd"} -> "ZADD"
      [] label \in {"post_set", "put_set"} -> "SET"
      [] label \in {"post_zcard", "post_vcard", "get_zcard", "put_zcard"} -> "ZCARD"
      [] label \in {"post_trim", "put_trim"} -> "ZREMRANGEBYRANK"
      [] label \in {"post_rank"} -> "ZREVRANK"
      [] label \in {"post_vrange", "get_range", "test_range"} -> "ZREVRANGE"
      [] label \in {"post_zscore"} -> "ZSCORE"
      [] label \in {"test_ping"} -> "PING"
      [] label \in {"test_exists", "get_exists", "get_exists2", "reset_exists"} -> "EXISTS"
      [] label \in {"get_zrange"} -> "ZRANGE"
      [] OTHER -> "DEL"

\* the catch of the test mode, lines 946-953
TestError500 == [status |-> 500, test |-> TRUE, error |-> "error"]
\* variant of Caught that swallows the error and answers a success
CaughtSwallowed(p) == [status |-> 200, success |-> TRUE]
\* what the handler answers when a store command has thrown
Caught(p) ==
    IF req[p].method = "GET" /\ req[p].test THEN TestError500 ELSE Error500

\* the store command slot p awaits throws; the catch answers
Fail(p) ==
    /\ pc[p] \notin {"idle", "done"}
    /\ IssueFailed(p, CmdAt(pc[p]))
    /\ Respond(p, Caught(p))
    /\ UNCHANGED <<zsets, strs, today, nreq, req, loc, snap, subs>>

(***************************************************************************)
(* The configuration check, unsupported methods, and the connection test   *)
(* endpoint (source lines 1-125).                                          *)
(***************************************************************************)
\* a request with a method the ranking handler has no branch for
PatchRequest == [method |-> "PATCH"]
\* a request to the connection test endpoint
ConnRequest == [method |-> "GET", path |-> "connection-test"]
IsConn(r) == "path" \in DOMAIN r
AnyRequests ==
    GetRequests \cup PostRequests \cup DeleteRequests \cup PutRequests
        \cup {PatchRequest, ConnRequest}
\* the responses of lines 823-826 and 15-19
ConfigError500 == [status |-> 500, error |-> "Server configuration error"]
ConnConfigError500 ==
    [status |-> 500, error |-> "Environment variables not set",
     hasUrl |-> UPSTASH_URL # "", hasToken |-> UPSTASH_TOKEN # ""]
\* variant of NoStoreEnv that goes on as if the store were configured
NoStoreEnvIgnored(p, r) ==
    /\ Respond(p, [status |-> 200, success |-> TRUE])
    /\ log' = [log EXCEPT ![p] = <<"PING">>]
\* what both handlers do when the endpoint or the credential is missing:
\* answer 500 before any store command
NoStoreEnv(p, r) ==
    /\ Respond(p, IF IsConn(r) THEN ConnConfigError500 ELSE ConfigError500)
    /\ UNCHANGED log
\* a request of any kind arrives at a deployment without store configuration
\* (lines 14-20 and 819-828)
ConfigError(p) ==
    \E r \in AnyRequests :
        /\ pc[p] = "idle"
        /\ ~Configured
        /\ nreq < MaxReqs
        /\ nreq' = nreq + 1
        /\ req' = [req EXCEPT ![p] = r]
        /\ snap' = [snap EXCEPT ![p] = [zsets |-> zsets, strs |-> strs]]
        /\ NoStoreEnv(p, r)
        /\ UNCHANGED <<zsets, strs, today, loc, subs, env>>

\* a request whose method is none of GET, POST, DELETE, PUT (line 1503)
Unsupported(p) ==
    /\ Arrive(p, PatchRequest)
    /\ Respond(p, [status |-> 405, error |-> "Method not allowed"])
    /\ UNCHANGED <<zsets, strs, today, loc, log, subs>>

StartConn(p) ==
    /\ Arrive(p, ConnRequest)
    /\ Goto(p, "conn_ping")
    /\ UNCHANGED <<zsets, strs, today, loc, resp, log, subs>>

\* The connection test, lines 22-117, one store request per step: PING,
\* SET test:key test:value, GET test:key, EXISTS ranking:flick and
\* ZREVRANGE ranking:flick 0 4 WITHSCORES, then the response.
ConnSteps(p) ==
    /\ pc[p] \in {"conn_ping", "conn_set", "conn_get", "conn_exists", "conn_range"}
    /\ CASE pc[p] = "conn_ping" ->
               Issue(p, "PING") /\ Goto(p, "conn_set") /\ UNCHANGED <<strs, resp>>
          [] pc[p] = "conn_set" ->
               /\ Issue(p, "SET")
               /\ strs' = [strs EXCEPT ![TestKey] = BareMember("test:value")]
               /\ Goto(p, "conn_get")
               /\ UNCHANGED resp
          [] pc[p] = "conn_get" ->
               Issue(p, "GET") /\ Goto(p, "conn_exists") /\ UNCHANGED <<strs, resp>>
          [] pc[p] = "conn_exists" ->
               Issue(p, "EXISTS") /\ Goto(p, "conn_range") /\ UNCHANGED <<strs, resp>>
          [] OTHER ->
               /\ Issue(p, "ZREVRANGE")
               /\ Respond(p, [status |-> 200, success |-> TRUE,
                              get |-> strs[TestKey],
                              exists |-> EXISTS(zsets[RankingKey("flick")]),
                              zrevrange |->
                                  WithScores(ZREVRANGE(zsets[RankingKey("flick")], 0, 4))])
               /\ UNCHANGED strs
    /\ UNCHANGED <<zsets, today, nreq, req, loc, snap, subs>>

(***************************************************************************)
(* Specifications.                                                         *)
(***************************************************************************)
Handler(p) == Get(p) \/ Post(p) \/ Delete(p) \/ Put(p) \/ Finish(p)

\* Requests of every method, served one at a time (slot 1 alone is used), all
\* on one day.
Next == Handler(1)
Spec == Init /\ [][Next]_vars

\* Submissions only, one at a time, recorded in subs, while the date changes.
NextSubmit == Tick \/ StartPostTracked(1) \/ PostSteps(1) \/ Finish(1)
SpecSubmit == Init /\ [][NextSubmit]_vars

\* Requests of every method, one at a time, where store commands can fail
\* (the submissions are those of ConcRequests, which all pass validation).
NextFail ==
    \/ StartPostConc(1) \/ PostSteps(1) \/ Get(1) \/ Delete(1) \/ Put(1)
    \/ Finish(1) \/ Fail(1)
SpecFail == Init /\ [][NextFail]_vars

\* Submit, Delete, Edit and ResetAll, one at a time, on a store that may hold
\* earlier entries and under either configuration of the admin password.
NextAdmin == StartPostConc(1) \/ PostSteps(1) \/ Delete(1) \/ Put(1) \/ Finish(1)
SpecAdmin == InitAdmin /\ [][NextAdmin]_vars

\* Requests whose mode or name contains ':', one at a time: the player key
\* `player:${mode}:${name}` (lines 1153, 1441, 1463-1464) of two different
\* (mode, name) pairs can be the same string.
KeyPosts ==
    {[PostBase EXCEPT !.mode = m, !.name = n, !.efficiency = RawInt(e)] :
        m \in KeyModes, n \in KeyNames, e \in {1, 2}}
KeyDeletes ==
    {[DeleteBase EXCEPT !.mode = m, !.name = n] : m \in KeyModes, n \in KeyNames}
KeyPuts ==
    {[PutBase EXCEPT !.mode = m, !.oldName = o, !.newName = n, !.newEfficiency = RawInt(2)] :
        m \in KeyModes, o \in KeyNames, n \in KeyNames}
StartPostKeys(p) == \E r \in KeyPosts : StartPostOf(p, r, TRUE)
StartDeleteKeys(p) == \E r \in KeyDeletes : StartDeleteOf(p, r)
StartPutKeys(p) == \E r \in KeyPuts : StartPutOf(p, r)
NextKeys ==
    \/ StartPostKeys(1) \/ PostSteps(1)
    \/ StartDeleteKeys(1) \/ DeleteZrem(1) \/ DeleteDel(1)
    \/ StartPutKeys(1) \/ PutZrem(1) \/ PutZadd(1) \/ PutDel(1) \/ PutSet(1)
    \/ PutZcard(1) \/ PutTrim(1)
    \/ Finish(1)
SpecKeys == Init /\ [][NextKeys]_vars

\* A Fetch in slot 1 whose store commands interleave with the submissions
\* served in slot 2.  A Fetch writes nothing; its arrival is not counted in
\* nreq, so that MaxReqs submissions can run beside it.
FetchRequest == [method |-> "GET", mode |-> "flick", test |-> FALSE]
FetchPosts ==
    {[PostBase EXCEPT !.name = NameSeq[i + 1], !.efficiency = RawInt(i)] : i \in 1..3}
    \cup {[PostBase EXCEPT !.efficiency = RawInt(2)]}
StartFetch(p) ==
    /\ pc[p] = "idle"
    /\ Configured
    /\ req' = [req EXCEPT ![p] = FetchRequest]
    /\ snap' = [snap EXCEPT ![p] = [zsets |-> zsets, strs |-> strs]]
    /\ Goto(p, "get_range")
    /\ loc' = [loc EXCEPT ![p] = [mode |-> QueryMode(FetchRequest.mode), scores |-> <<>>]]
    /\ UNCHANGED <<zsets, strs, today, nreq, resp, log, subs, env>>
StartPostFetch(p) == \E r \in FetchPosts : StartPostOf(p, r, FALSE)
NextFetch ==
    \/ StartFetch(1) \/ GetRange(1) \/ GetEmpty(1) \/ Finish(1)
    \/ StartPostFetch(2) \/ PostSteps(2) \/ Finish(2)
SpecFetch == Init /\ [][NextFetch]_vars

\* Submissions of different players and modes that overlap: three players on
\* one mode, and two players on two modes whose names contain ':'.
ParRequests ==
    {[PostBase EXCEPT !.name = NameSeq[i + 1], !.efficiency = RawInt(i)] : i \in 1..3}
    \cup {[PostBase EXCEPT !.efficiency = RawInt(2)]}
    \cup {[PostBase EXCEPT !.mode = "a", !.name = "b:c"],
          [PostBase EXCEPT !.mode = "a:b", !.name = "c"]}
StartPostPar(p) == \E r \in ParRequests : StartPostOf(p, r, FALSE)
\* The invocations come in pairs that run in parallel with each other and
\* with nothing else: a request arrives in slot 1 while slot 2 is free, one
\* request arrives in slot 2 before the one in slot 1 has returned, and the
\* slots are freed, slot 2 first, when both have returned.  A request of
\* slot 1 may also run alone.
StartPar(p) ==
    /\ IF p = 1 THEN pc[2] = "idle" ELSE pc[1] \notin {"idle", "done"}
    /\ StartPostPar(p)
FinishPar(p) ==
    /\ IF p = 1 THEN pc[2] = "idle" ELSE pc[1] = "done"
    /\ Finish(p)
NextPar == \E p \in Procs : StartPar(p) \/ PostSteps(p) \/ FinishPar(p)
SpecPar == Init /\ [][NextPar]_vars

\* Submissions and edits on one mode that overlap.
RacePosts ==
    {[PostBase EXCEPT !.efficiency = RawInt(e)] : e \in {1, 2}}
    \cup {[PostBase EXCEPT !.name = "Bob", !.efficiency = RawInt(2)]}
RacePuts == {[PutBase EXCEPT !.newName = "Carol", !.newEfficiency = RawInt(3)]}
StartPostRace(p) == \E r \in RacePosts : StartPostOf(p, r, FALSE)
StartPutRace(p) == \E r \in RacePuts : StartPutOf(p, r)
NextRace ==
    \E p \in Procs :
        \/ StartPostRace(p) \/ PostSteps(p)
        \/ StartPutRace(p) \/ PutZrem(p) \/ PutZadd(p) \/ PutDel(p) \/ PutSet(p)
        \/ PutZcard(p) \/ PutTrim(p)
        \/ Finish(p)
SpecRace == Init /\ [][NextRace]_vars

\* Fetches and Submits, one at a time, on a store that holds bare members.
NextLegacy ==
    \/ StartFetch(1) \/ GetRange(1) \/ GetEmpty(1)
    \/ StartPostConc(1) \/ PostSteps(1) \/ Finish(1)
SpecLegacy == InitLegacy /\ [][NextLegacy]_vars

\* Fetches whose ZREVRANGE reply is any flat array of up to MaxRawLen
\* strings, well paired or not, between Submits.
MaxRawLen == 3
RawElems ==
    {StringifyFull("Alice", 1000, 191, 1, 1), BareMember("Bob"), BareMember("42"),
     ScoreStr(4), ScoreStr(3)}
RECURSIVE Arrays(_, _)
\* the sequences over S of length n
Arrays(S, n) ==
    IF n = 0 THEN {<<>>} ELSE {Append(a, x) : a \in Arrays(S, n - 1), x \in S}
RawReplies == UNION {Arrays(RawElems, n) : n \in 0..MaxRawLen}
GetRangeRaw(p) == \E scores \in RawReplies : GetRangeOf(p, scores)
NextRaw ==
    \/ StartFetch(1) \/ GetRangeRaw(1) \/ GetEmpty(1)
    \/ StartPostConc(1) \/ PostSteps(1) \/ Finish(1)
SpecRaw == InitLegacy /\ [][NextRaw]_vars

\* What the store's REST endpoint can answer to one request: an HTTP status
\* and a body text.  A body is no JSON text, or the JSON text of null, of a
\* number, or of an object with or without the properties result and error.
HttpStatuses == {200, 401, 500}
Absent == [kind |-> "absent"]
JsonString(v) == [kind |-> "string", v |-> v]
JsonArray(items) == [kind |-> "array", items |-> items]
ResultValues ==
    {Absent, JsonArray(<<>>),
     JsonArray(<<StringifyFull("Alice", 1000, 191, 1, 1), ScoreStr(2)>>)}
ErrorValues == {Absent, JsonString(""), JsonString("ERR syntax error")}
HttpBodies ==
    {[kind |-> "text"], [kind |-> "null"], [kind |-> "number"]}
        \cup {[kind |-> "object", result |-> r, error |-> e] :
                  r \in ResultValues, e \in ErrorValues}
HttpResponses == {[status |-> st, body |-> b] : st \in HttpStatuses, b \in HttpBodies}
\* response.ok
Ok(response) == response.status \in 200..299
\* JSON.parse(responseText) returns
IsJson(body) == body.kind # "text"
\* if (v)
Truthy(v) == v \notin {Absent, JsonString("")}
\* upstashCommand throws: the status is no success (line 858), the body is no
\* JSON text (line 883), reading data.error of null is a TypeError, or
\* data.error is truthy (line 892)
Thrown(response) ==
    \/ ~Ok(response)
    \/ ~IsJson(response.body)
    \/ response.body.kind = "null"
    \/ response.body.kind = "object" /\ Truthy(response.body.error)
\* the scores array the Fetch takes from the returned data, lines 976-1025
ScoresOf(data) ==
    IF data.kind = "object" /\ data.result # Absent THEN data.result.items ELSE <<>>
\* ZREVRANGE key 0 49 WITHSCORES (line 962), answered by any HTTP response:
\* upstashCommand sends the one request of line 842 and throws or returns
\* the parsed body
GetRangeHttp(p) ==
    \E response \in HttpResponses :
        LET result == IF Thrown(response) THEN Undefined ELSE response.body
            scores == ScoresOf(result)
        IN  /\ pc[p] = "get_range"
            /\ loc' = [loc EXCEPT ![p] = [mode |-> @.mode, scores |-> scores,
                                           response |-> response, result |-> result]]
            /\ IF Thrown(response)
               THEN IssueFailed(p, "ZREVRANGE") /\ Respond(p, Caught(p))
               ELSE /\ Issue(p, "ZREVRANGE")
                    /\ IF Len(scores) = 0
                       THEN Goto(p, "get_exists") /\ UNCHANGED resp
                       ELSE Respond(p, [status |-> 200, rankings |-> Decode(scores)])
            /\ UNCHANGED <<zsets, strs, today, nreq, req, snap, subs>>
\* Fetches whose first store call is answered by any HTTP response, between
\* Submits.
NextHttp ==
    \/ StartFetch(1) \/ GetRangeHttp(1) \/ GetEmpty(1)
    \/ StartPostConc(1) \/ PostSteps(1) \/ Finish(1)
SpecHttp == InitLegacy /\ [][NextHttp]_vars

\* Three Submits that overlap, on a store whose flick collection holds one
\* bare member: the handler runs once in each of three slots.
Slots == {1, 2, 3}
InitTrio ==
    /\ zsets = [k \in ZKeys |->
                   IF k = RankingKey("flick")
                   THEN {[member |-> BareMember("42"), score |-> 6]} ELSE {}]
    /\ strs = [k \in StrKeys |-> Nil]
    /\ today = 1
    /\ nreq = 0
    /\ pc = [p \in Slots |-> "idle"]
    /\ req = [p \in Slots |-> NoReq]
    /\ loc = [p \in Slots |-> NoLoc]
    /\ resp = [p \in Slots |-> NoResp]
    /\ log = [p \in Slots |-> <<>>]
    /\ snap = [p \in Slots |-> NoSnap]
    /\ subs = <<>>
    /\ ADMIN_PASSWORD = ""
    /\ StoreEnv
\* the Submits arrive in the order of the slots, one in each: Alice with
\* efficiency 1, Bob with efficiency 2, and Alice again with efficiency 2
TrioRequest(p) ==
    [PostBase EXCEPT !.name = NameSeq[IF p = 2 THEN 3 ELSE 2],
                     !.efficiency = RawInt(IF p = 1 THEN 1 ELSE 2)]
StartPostTrio(p) == nreq = p - 1 /\ StartPostOf(p, TrioRequest(p), FALSE)
NextTrio == \E p \in Slots : StartPostTrio(p) \/ PostSteps(p) \/ Finish(p)
SpecTrio == InitTrio /\ [][NextTrio]_vars

\* Requests of every kind to both endpoints, one at a time, in deployments
\* with and without the store endpoint and the credential.
InitEnv ==
    /\ zsets = [k \in ZKeys |-> {}]
    /\ strs = [k \in StrKeys |-> Nil]
    /\ today = 1
    /\ nreq = 0
    /\ pc = [p \in Procs |-> "idle"]
    /\ req = [p \in Procs |-> NoReq]
    /\ loc = [p \in Procs |-> NoLoc]
    /\ resp = [p \in Procs |-> NoResp]
    /\ log = [p \in Procs |-> <<>>]
    /\ snap = [p \in Procs |-> NoSnap]
    /\ subs = <<>>
    /\ ADMIN_PASSWORD = ""
    /\ UPSTASH_URL \in {"", "https://db.upstash.io"}
    /\ UPSTASH_TOKEN \in {"", "token"}
NextEnv ==
    \/ Handler(1) \/ Unsupported(1) \/ StartConn(1) \/ ConnSteps(1)
    \/ ConfigError(1)
SpecEnv == InitEnv /\ [][NextEnv]_vars

\* Requests of every method, one at a time, on a store that holds bare
\* members, where every store call returns in the end, with a result or with
\* a failure: a handler that awaits a store call is resumed.
Awaiting(p) == pc[p] \notin {"idle", "done"}
LiveDeletes == {DeleteBase, [DeleteBase EXCEPT !.resetAll = TRUE]}
StartLive(p) ==
    /\ nreq + 1 < MaxReqs
    /\ \/ StartPostFetch(p) \/ StartGet(p) \/ StartPutRace(p) \/ Unsupported(p)
       \/ \E r \in LiveDeletes : StartDeleteOf(p, r)
\* the steps of a handler after its first store call was issued
Steps(p) ==
    \/ PostSteps(p)
    \/ TestPing(p) \/ TestExists(p) \/ TestRange(p) \/ GetRange(p) \/ GetEmpty(p)
    \/ ResetExists(p) \/ ResetDel(p) \/ DeleteZrem(p) \/ DeleteDel(p)
    \/ PutZrem(p) \/ PutZadd(p) \/ PutDel(p) \/ PutSet(p) \/ PutZcard(p) \/ PutTrim(p)
\* the awaited store call returns, with a failure or with a result
Resume(p) == Fail(p) \/ Steps(p)
NextLive == StartLive(1) \/ Resume(1) \/ Finish(1)
SpecLive == InitLegacy /\ [][NextLive]_vars /\ WF_vars(Resume(1))

\* Submissions that overlap: the store commands of the two slots interleave.
NextConc == \E p \in Procs : StartPostConc(p) \/ PostSteps(p) \/ Finish(p)
SpecConc == Init /\ [][NextConc]_vars

(***************************************************************************)
(* Properties.                                                             *)
(***************************************************************************)
\* no handler is between two store commands
Quiet == \A p \in Procs : pc[p] \in {"idle", "done"}
\* slot p holds a Submit that went through validation and has returned
Submitted(p) == pc[p] = "done" /\ req[p].method = "POST" /\ resp[p].status = 200
Accepted(p) == Submitted(p) /\ resp[p].updated
Rejected(p) == Submitted(p) /\ ~resp[p].updated
Issued(p, cmd) == \E i \in 1..Len(log[p]) : log[p][i] = cmd

\* the members of sorted set z that carry a name
MembersOf(z, name) == {e \in z : e.member.name = name}
\* what a Fetch answers on sorted set z when no other request is running
FetchView(z) == Decode(WithScores(ZREVRANGE(z, 0, TopN - 1)))
\* a Fetch result shows a player at an efficiency
Shows(rankings, name, efficiency) ==
    \E i \in 1..Len(rankings) :
        rankings[i].name = name /\ rankings[i].efficiency = efficiency
SetMax(S) == CHOOSE x \in S : \A y \in S : y <= x

\* The Fetch handler answers FetchView of the mode's sorted set.
FetchAnswersView ==
    \A p \in Procs :
        (pc[p] = "done" /\ req[p].method = "GET" /\ ~req[p].test)
            => resp[p].rankings = FetchView(zsets[RankingKey(loc[p].mode)])

\* C1: after any sequence of completed Submit, Delete, Edit and ResetAll
\* operations, every mode's sorted collection holds at most one member for
\* each player name.
C1_OneMemberPerName ==
    Quiet => \A k \in ZKeys : \A n \in Names :
                 Cardinality(MembersOf(zsets[k], n)) <= 1

\* the efficiencies submitted so far for a (mode, name) pair
SubmittedFor(mode, name) ==
    {subs[i].efficiency : i \in {j \in 1..Len(subs) :
                                   subs[j].mode = mode /\ subs[j].name = name}}

\* C2: after any sequence of Submits (and nothing else), the PlayerBestKey
\* record of a (mode, name) pair carries the maximum efficiency submitted for
\* the pair.
C2_BestIsMaximum ==
    Quiet => \A m \in ReqModes : \A n \in Names :
                 SubmittedFor(m, n) # {} =>
                     /\ strs[PlayerKey(m, n)] # Nil
                     /\ strs[PlayerKey(m, n)].efficiency = SetMax(SubmittedFor(m, n))
\* a pair has received a lower efficiency after a higher one
C2_Witness ==
    /\ Quiet
    /\ \E i, j \in 1..Len(subs) :
          /\ i < j
          /\ subs[i].mode = subs[j].mode /\ subs[i].name = subs[j].name
          /\ subs[i].efficiency > subs[j].efficiency

\* the PlayerBestKey record slot p's request found when it arrived
PriorBest(p) == snap[p].strs[PlayerKey(req[p].mode, req[p].name)]
\* slot p holds a returned Submit with a valid body
ValidSubmit(p) == pc[p] = "done" /\ req[p].method = "POST" /\ ValidPost(req[p])

\* C3: a Submit whose efficiency is lower than or equal to the efficiency
\* stored under PlayerBestKey answers updated: false without a rank and
\* leaves the mode's sorted collection and the PlayerBestKey record
\* unchanged, so a following Fetch answers what it answered before.
C3_NotHigherIsRejected ==
    \A p \in Procs :
        (/\ ValidSubmit(p)
         /\ PriorBest(p) # Nil
         /\ parseInt(req[p].efficiency) <= PriorBest(p).efficiency)
        => /\ resp[p].status = 200
           /\ resp[p].updated = FALSE
           /\ "rank" \notin DOMAIN resp[p]
           /\ zsets = snap[p].zsets
           /\ strs = snap[p].strs
           /\ FetchView(zsets[RankingKey(req[p].mode)])
                  = FetchView(snap[p].zsets[RankingKey(req[p].mode)])
\* a Submit equal to the stored best was rejected while the player is shown
C3_Witness ==
    \E p \in Procs :
        /\ Rejected(p)
        /\ parseInt(req[p].efficiency) = PriorBest(p).efficiency
        /\ Shows(FetchView(zsets[RankingKey(req[p].mode)]), req[p].name,
                 PriorBest(p).efficiency)

\* C4: after every completed Submit the mode's sorted collection holds at
\* most 50 members (TopN in the model).
C4_AtMostTopN ==
    \A p \in Procs :
        Submitted(p) => ZCARD(zsets[RankingKey(req[p].mode)]) <= TopN
\* a Submit that trimmed the collection has returned
C4_Witness ==
    \E p \in Procs : Submitted(p) /\ Issued(p, "ZREMRANGEBYRANK")

\* the elements of a sequence
Elems(q) == {q[i] : i \in 1..Len(q)}

\* C5: when a Submit brings the collection above 50 members, the trim removes
\* the members at descending rank 50 and beyond, the lowest efficiencies: the
\* 50 highest-ranked members remain.
C5_TrimKeepsHighest ==
    [][\A p \in Procs :
          (pc[p] = "post_trim" /\ pc'[p] = "post_rank")
              => zsets'[RankingKey(req[p].mode)]
                     = Elems(ZREVRANGE(zsets[RankingKey(req[p].mode)], 0, TopN - 1))]_vars

\* 51 players (TopN + 1 in the model) have each submitted once to one mode,
\* with efficiencies 1, 2, ... in this order, and nothing else was submitted
IncreasingRun ==
    /\ Quiet
    /\ Len(subs) = TopN + 1
    /\ \A i \in 1..Len(subs) : subs[i].efficiency = i /\ subs[i].mode = subs[1].mode
    /\ \A i, j \in 1..Len(subs) : i # j => subs[i].name # subs[j].name

\* C6: when 51 distinct players each Submit once to one mode with the
\* efficiencies 1..51, a following Fetch returns exactly 50 entries and the
\* player with the lowest efficiency is not among them.
C6_LowestIsDropped ==
    IncreasingRun =>
        LET rankings == FetchView(zsets[RankingKey(subs[1].mode)])
        IN  /\ Len(rankings) = TopN
            /\ \A i \in 1..Len(rankings) : rankings[i].name # subs[1].name

\* C7: after a Submit that is accepted as a new best, a Fetch of the mode
\* returns an entry with the submitted name and efficiency.
C7_AcceptedIsFetched ==
    \A p \in Procs :
        Accepted(p) => Shows(FetchView(zsets[RankingKey(req[p].mode)]),
                             req[p].name, loc[p].efficiency)
\* C7 restricted: after a Submit that is accepted as a new best and answers a
\* rank other than 51 (its entry is in the collection after the trim), a
\* Fetch of the mode returns an entry with the submitted name and efficiency.
C7_RankedIsFetched ==
    \A p \in Procs :
        (Accepted(p) /\ resp[p].rank # TopN + 1)
            => Shows(FetchView(zsets[RankingKey(req[p].mode)]),
                     req[p].name, loc[p].efficiency)
\* an accepted Submit trimmed the collection and its entry stayed
C7_Witness ==
    \E p \in Procs :
        /\ Accepted(p)
        /\ resp[p].rank # TopN + 1
        /\ Issued(p, "ZREMRANGEBYRANK")

\* the entry of z that slot p's Submit wrote, as a set (empty when gone)
OwnEntry(p, z) == {e \in z : e.member = loc[p].scoreData}
\* entries of z with a score strictly greater than that of e
StrictlyGreater(z, e) == {x \in z : x.score > e.score}
\* entries of z with the score of e and a member after e's in byte order
TiedAhead(z, e) ==
    {x \in z : x.score = e.score
                 /\ SeqLess(MemberChars(e.member), MemberChars(x.member))}

\* C8: the rank an accepted Submit answers is 1 + the number of members with
\* strictly greater efficiency whenever its entry is in the collection after
\* the trim (also when other members tie with it), and 51 when it is not.
C8_RankCountsGreater ==
    \A p \in Procs :
        Accepted(p) =>
            LET z == zsets[RankingKey(req[p].mode)]
            IN  IF OwnEntry(p, z) # {}
                THEN \A e \in OwnEntry(p, z) :
                         resp[p].rank = 1 + Cardinality(StrictlyGreater(z, e))
                ELSE resp[p].rank = TopN + 1
\* C8 amended: the rank is 1 + the number of members that precede the entry
\* in the store's descending order (a strictly greater score, or the same
\* score and a serialized member later in byte order) whenever the entry is
\* in the collection after the trim, and 51 when it is not.
C8_RankCountsPreceding ==
    \A p \in Procs :
        Accepted(p) =>
            LET z == zsets[RankingKey(req[p].mode)]
            IN  IF OwnEntry(p, z) # {}
                THEN \A e \in OwnEntry(p, z) :
                         resp[p].rank = 1 + Cardinality(StrictlyGreater(z, e))
                                          + Cardinality(TiedAhead(z, e))
                ELSE resp[p].rank = TopN + 1
\* an accepted Submit ranked behind a member that ties with it
C8_Witness ==
    \E p \in Procs :
        /\ Accepted(p)
        /\ \E e \in OwnEntry(p, zsets[RankingKey(req[p].mode)]) :
              /\ TiedAhead(zsets[RankingKey(req[p].mode)], e) # {}
              /\ resp[p].rank = 2

\* slot p holds a returned Fetch of a ranking
Fetched(p) == pc[p] = "done" /\ req[p].method = "GET" /\ ~req[p].test

\* C9: the entries a Fetch returns are in non-increasing order of efficiency
\* (requests served one at a time).
C9_FetchIsDescending ==
    \A p \in Procs :
        Fetched(p) =>
            \A i, j \in 1..Len(resp[p].rankings) :
                i < j => resp[p].rankings[i].efficiency >= resp[p].rankings[j].efficiency
\* a Fetch returned entries of different efficiencies
C9_Witness ==
    \E p \in Procs :
        /\ Fetched(p)
        /\ Len(resp[p].rankings) >= 2
        /\ resp[p].rankings[1].efficiency > resp[p].rankings[Len(resp[p].rankings)].efficiency

\* both slots hold accepted Submits for one (mode, name) pair that carried
\* different efficiencies, read the same PlayerBestKey record and did not trim
Raced ==
    /\ Accepted(1) /\ Accepted(2)
    /\ req[1].mode = req[2].mode /\ req[1].name = req[2].name
    /\ loc[1].efficiency # loc[2].efficiency
    /\ loc[1].existing = loc[2].existing
    /\ ~Issued(1, "ZREMRANGEBYRANK") /\ ~Issued(2, "ZREMRANGEBYRANK")
\* the collection holds two members for the player of slot 1
TwoMembers ==
    Cardinality(MembersOf(zsets[RankingKey(req[1].mode)], req[1].name)) >= 2
\* PlayerBestKey records less than the higher of the two accepted efficiencies
StaleBest ==
    LET b == strs[PlayerKey(req[1].mode, req[1].name)]
    IN  b # Nil /\ b.efficiency < SetMax({loc[1].efficiency, loc[2].efficiency})

\* C10: two overlapping Submits for one (mode, name) pair are not serialized:
\* when both read the same prior best and both supersede it, the run ends
\* with two members for the player in the collection or with a
\* PlayerBestKey record lower than the highest accepted efficiency.
C10_OverlapIsNotSerialized == Raced => (TwoMembers \/ StaleBest)
\* such a run, superseding a recorded best, has ended with both outcomes at once
C10_Witness == Raced /\ loc[1].existing # Nil /\ TwoMembers /\ StaleBest

\* the last store command of slot p's request threw
Failed(p) == log[p] # <<>> /\ log[p][Len(log[p])] = "error"

\* slot p holds a Submit that superseded a recorded best, removed its member
\* and failed at the ZADD; the player had no other member in the collection
FailedAtZadd(p) ==
    /\ pc[p] = "done" /\ req[p].method = "POST"
    /\ log[p] = <<"GET", "ZREM", "ZADD", "error">>
    /\ \A e \in MembersOf(snap[p].zsets[RankingKey(req[p].mode)], req[p].name) :
           e.member = PriorBest(p)

\* C11: there is no rollback on store failure: a superseding Submit that
\* fails at the ZADD after its ZREM of the prior entry ends with an error,
\* and leaves the PlayerBestKey record set as before while the mode's
\* collection holds no member for the player.
C11_NoRollback ==
    \A p \in Procs :
        FailedAtZadd(p) =>
            /\ resp[p].status = 500
            /\ strs[PlayerKey(req[p].mode, req[p].name)] # Nil
            /\ strs[PlayerKey(req[p].mode, req[p].name)] = PriorBest(p)
            /\ MembersOf(zsets[RankingKey(req[p].mode)], req[p].name) = {}
\* such a Submit has failed after its ZREM removed the player's entry
C11_Witness ==
    \E p \in Procs :
        /\ FailedAtZadd(p)
        /\ MembersOf(snap[p].zsets[RankingKey(req[p].mode)], req[p].name) # {}
        /\ MembersOf(zsets[RankingKey(req[p].mode)], req[p].name) = {}
        /\ strs[PlayerKey(req[p].mode, req[p].name)] # Nil

\* C12: in every operation (Fetch, Submit, Delete, Edit, ResetAll), once a
\* store call fails the operation issues no further store command, does not
\* issue the failed command again, and answers a failure instead of a
\* success: a failure is always the last entry of the commands a request
\* issued, and the request has then returned with status 500.
C12_FailureAborts ==
    \A p \in Procs : \A i \in 1..Len(log[p]) :
        log[p][i] = "error" =>
            /\ i = Len(log[p])
            /\ pc[p] = "done"
            /\ resp[p].status = 500
            /\ "success" \notin DOMAIN resp[p]
\* a ResetAll has failed after it deleted a ranking key
C12_Witness ==
    \E p \in Procs :
        /\ Failed(p)
        /\ req[p].method = "DELETE" /\ req[p].resetAll
        /\ Issued(p, "DEL")

\* a body field that is absent or is not numeric after coercion
NotNumeric(x) == x.k \in {"str", "undef"}
\* slot p holds a returned Submit with an empty or absent mode or name, or
\* with a score, accuracy or efficiency that is absent or not numeric
BadSubmit(p) ==
    /\ pc[p] = "done" /\ req[p].method = "POST"
    /\ \/ req[p].mode = "" \/ req[p].name = ""
       \/ NotNumeric(req[p].score) \/ NotNumeric(req[p].accuracy)
       \/ NotNumeric(req[p].efficiency)

\* C13: a Submit with an empty or absent mode or name, or with a score,
\* accuracy or efficiency that is absent or not numeric after coercion, is
\* answered with HTTP 400 and issues no store command, so the store is
\* unchanged.
C13_BadSubmitIsRejected ==
    \A p \in Procs :
        BadSubmit(p) =>
            /\ resp[p].status = 400
            /\ log[p] = <<>>
            /\ zsets = snap[p].zsets
            /\ strs = snap[p].strs
\* a Submit with a non-numeric efficiency was rejected on a board with entries
C13_Witness ==
    \E p \in Procs :
        /\ BadSubmit(p)
        /\ req[p].efficiency = RawStr
        /\ resp[p].status = 400
        /\ zsets[RankingKey("flick")] # {}

\* the store commands that change the store
Mutating == {"ZREM", "ZADD", "SET", "DEL", "ZREMRANGEBYRANK"}
\* the mutating commands slot p's request has issued, in order
Mutations(p) == SelectSeq(log[p], LAMBDA c : c \in Mutating)

\* slot p holds a returned Delete that passed the credential test and has a
\* missing or non-numeric required field
BadDelete(p) ==
    /\ pc[p] = "done" /\ req[p].method = "DELETE" /\ ~req[p].resetAll
    /\ resp[p].status # 401
    /\ req[p].mode = "" \/ req[p].name = "" \/ NotNumeric(req[p].efficiency)
\* the same for an Edit
BadEdit(p) ==
    /\ pc[p] = "done" /\ req[p].method = "PUT"
    /\ resp[p].status # 401
    /\ \/ req[p].mode = "" \/ req[p].oldName = "" \/ req[p].newName = ""
       \/ NotNumeric(req[p].oldEfficiency) \/ NotNumeric(req[p].newScore)
       \/ NotNumeric(req[p].newAccuracy) \/ NotNumeric(req[p].newEfficiency)

\* C14: a Delete or an Edit with a missing or non-numeric required field is
\* rejected as invalid input (HTTP 400) without having issued any mutating
\* store command.
C14_BadAdminIsRejected ==
    \A p \in Procs :
        (BadDelete(p) \/ BadEdit(p)) =>
            /\ resp[p].status = 400
            /\ Mutations(p) = <<>>

\* slot p holds a Delete, an Edit or a ResetAll
Privileged(p) == req[p].method \in {"DELETE", "PUT"}

\* C15: Delete, Edit and ResetAll issue store commands only when the request
\* carries a bearer credential equal to the configured admin secret
\* (ADMIN_PASSWORD), in every configuration of the environment; a request
\* with a missing or other credential is answered 401, issues no store
\* command and leaves the store unchanged.
C15_OnlyConfiguredSecret ==
    \A p \in Procs :
        Privileged(p) =>
            /\ log[p] # <<>> => req[p].authHeader = "Bearer " \o ADMIN_PASSWORD
            /\ (pc[p] = "done" /\ req[p].authHeader # "Bearer " \o ADMIN_PASSWORD)
                  => /\ resp[p].status = 401
                     /\ log[p] = <<>>
                     /\ zsets = snap[p].zsets /\ strs = snap[p].strs

\* The same relative to the secret the handler compares with, which is
\* 'hiro0419' when ADMIN_PASSWORD is unset or empty.
RejectsOtherThanAdminPassword ==
    \A p \in Procs :
        (Privileged(p) /\ req[p].authHeader # "Bearer " \o adminPassword)
            => /\ log[p] = <<>>
               /\ pc[p] = "done" => /\ resp[p].status = 401
                                    /\ zsets = snap[p].zsets /\ strs = snap[p].strs

\* slot p holds a ResetAll that has returned successfully
ResetDone(p) ==
    /\ pc[p] = "done" /\ req[p].method = "DELETE" /\ req[p].resetAll
    /\ resp[p].status = 200
\* the ranking keys of flick, tracking and grid
ResetKeys == {"ranking:flick", "ranking:tracking", "ranking:grid"}

\* C16: after an authorized ResetAll completes with no concurrent operation,
\* the sorted collections of flick, tracking and grid are absent, the
\* reported list of cleared keys is exactly the set of those three ranking
\* keys that existed when ResetAll started, and the collections of all other
\* modes are unchanged.
C16_ResetClearsKnownModes ==
    \A p \in Procs :
        ResetDone(p) =>
            /\ \A k \in ResetKeys : zsets[k] = {}
            /\ Elems(resp[p].deletedKeys) = {k \in ResetKeys : snap[p].zsets[k] # {}}
            /\ Len(resp[p].deletedKeys) = Cardinality(Elems(resp[p].deletedKeys))
            /\ \A k \in ZKeys \ ResetKeys : zsets[k] = snap[p].zsets[k]
\* a ResetAll cleared some of the three keys, found another of them absent
\* and left the collection of another mode in place
C16_Witness ==
    \E p \in Procs :
        /\ ResetDone(p)
        /\ Len(resp[p].deletedKeys) = 2
        /\ zsets[RankingKey(OtherMode)] # {}

\* slot p holds a returned valid Submit that is not higher than the recorded
\* best and found the mode's collection empty
StaleSubmit(p) ==
    /\ ValidSubmit(p)
    /\ PriorBest(p) # Nil
    /\ parseInt(req[p].efficiency) <= PriorBest(p).efficiency
    /\ snap[p].zsets[RankingKey(req[p].mode)] = {}

\* C17: ResetAll leaves every PlayerBestKey record unchanged; hence after a
\* ResetAll a Submit whose efficiency is lower than or equal to the player's
\* best from before the reset is rejected (updated: false), although the
\* mode's collection is empty and holds no entry for the player.
C17_ResetKeepsBest ==
    \A p \in Procs :
        /\ ResetDone(p) => strs = snap[p].strs
        /\ StaleSubmit(p) =>
              /\ resp[p].status = 200 /\ resp[p].updated = FALSE
              /\ zsets[RankingKey(req[p].mode)] = {}
              /\ strs = snap[p].strs
\* a Submit lower than the recorded best was rejected on an empty collection
C17_Witness ==
    \E p \in Procs :
        /\ StaleSubmit(p)
        /\ parseInt(req[p].efficiency) < PriorBest(p).efficiency
        /\ resp[p].updated = FALSE
        /\ zsets[RankingKey(req[p].mode)] = {}

\* slot p holds a Delete of one score that has returned successfully
DeleteDone(p) ==
    /\ pc[p] = "done" /\ req[p].method = "DELETE" /\ ~req[p].resetAll
    /\ resp[p].status = 200
\* the serialization of {name, efficiency} of slot p's Delete
DeleteTarget(p) ==
    [kind |-> "reduced", name |-> req[p].name,
     efficiency |-> IF NotNumeric(req[p].efficiency) THEN Null
                    ELSE parseInt(req[p].efficiency)]

\* C18: an authorized Delete(mode, name, efficiency) removes from the mode's
\* collection only a member exactly equal to the serialization of
\* {name, efficiency}, always deletes PlayerBestKey(mode, name), and reports
\* success in either case; a full-field member for the same name that a
\* Submit created stays in the collection.
C18_DeleteIsExactMatch ==
    \A p \in Procs :
        DeleteDone(p) =>
            LET k == RankingKey(req[p].mode)
                pk == PlayerKey(req[p].mode, req[p].name)
            IN  /\ zsets[k] = {e \in snap[p].zsets[k] : e.member # DeleteTarget(p)}
                /\ \A e \in snap[p].zsets[k] : e.member.kind = "full" => e \in zsets[k]
                /\ \A j \in ZKeys \ {k} : zsets[j] = snap[p].zsets[j]
                /\ strs[pk] = Nil
                /\ \A j \in SKeys \ {pk} : strs[j] = snap[p].strs[j]
                /\ resp[p].success
\* a Delete removed the reduced-field member of a player, deleted the
\* player's record and left the player's full-field member in place
C18_Witness ==
    \E p \in Procs :
        /\ DeleteDone(p)
        /\ \E e \in snap[p].zsets[RankingKey(req[p].mode)] : e.member = DeleteTarget(p)
        /\ snap[p].strs[PlayerKey(req[p].mode, req[p].name)] # Nil
        /\ \E e \in zsets[RankingKey(req[p].mode)] :
              e.member.kind = "full" /\ e.member.name = req[p].name

\* slot p holds an Edit that has returned successfully
EditDone(p) ==
    pc[p] = "done" /\ req[p].method = "PUT" /\ resp[p].status = 200

\* C19: after an authorized Edit returns successfully, PlayerBestKey(mode,
\* newName) holds the new full entry, PlayerBestKey(mode, oldName) is absent
\* when the two names differ, the reduced-field member {oldName,
\* oldEfficiency} is not in the collection, and the collection has at most
\* 50 members.
C19_EditPostState ==
    \A p \in Procs :
        EditDone(p) =>
            LET k == RankingKey(req[p].mode)
                b == strs[PlayerKey(req[p].mode, req[p].newName)]
            IN  /\ b # Nil /\ b.kind = "full"
                /\ b.name = req[p].newName
                /\ b = loc[p].newScoreDataStr
                /\ b.efficiency = parseInt(req[p].newEfficiency)
                /\ req[p].oldName # req[p].newName =>
                       strs[PlayerKey(req[p].mode, req[p].oldName)] = Nil
                /\ ~\E e \in zsets[k] :
                       /\ e.member.kind = "reduced"
                       /\ e.member.name = req[p].oldName
                       /\ e.member.efficiency =
                              (IF NotNumeric(req[p].oldEfficiency) THEN Null
                               ELSE parseInt(req[p].oldEfficiency))
                /\ Cardinality(zsets[k]) <= TopN
\* an Edit renamed a player who had a record and a reduced-field member
C19_Witness ==
    \E p \in Procs :
        /\ EditDone(p)
        /\ req[p].oldName # req[p].newName
        /\ snap[p].strs[PlayerKey(req[p].mode, req[p].oldName)] # Nil
        /\ \E e \in snap[p].zsets[RankingKey(req[p].mode)] :
              e.member = loc[p].oldScoreDataStr

\* the orders in which an accepted Submit may issue its mutating commands
SubmitOrders ==
    {pre \o <<"ZADD", "SET">> \o post :
        pre \in {<<>>, <<"ZREM">>}, post \in {<<>>, <<"ZREMRANGEBYRANK">>}}
IsPrefix(s, t) == Len(s) <= Len(t) /\ s = SubSeq(t, 1, Len(s))

\* C20: an accepted Submit issues its mutating commands in this order: at
\* most one ZREM, exactly one ZADD, exactly one SET, then at most one
\* ZREMRANGEBYRANK; a Submit that is not accepted issues none.  While the
\* Submit runs, what it has issued is a prefix of such an order.
C20_SubmitCommandOrder ==
    \A p \in Procs :
        req[p].method = "POST" =>
            /\ \E o \in SubmitOrders : IsPrefix(Mutations(p), o)
            /\ Accepted(p) => Mutations(p) \in SubmitOrders
            /\ pc[p] = "done" /\ ~Accepted(p) => Mutations(p) = <<>>
\* an accepted Submit issued all four mutating commands
C20_Witness ==
    \E p \in Procs :
        Accepted(p) /\ Mutations(p) = <<"ZREM", "ZADD", "SET", "ZREMRANGEBYRANK">>

\* slot p holds a Submit, Delete or Edit of one score that has returned
WroteMode(p) ==
    /\ pc[p] = "done"
    /\ req[p].method \in {"POST", "DELETE", "PUT"}
    /\ req[p].method = "DELETE" => ~req[p].resetAll
    /\ req[p].mode # ""

\* C21: leaderboards of different modes are independent, also for modes and
\* names that contain ':': a Submit, Delete or Edit on mode m leaves the
\* sorted collection and every PlayerBestKey record of each other mode as
\* they were when the request arrived, and a Submit that follows only Submits
\* on other modes is accepted.
C21_ModesAreIndependent ==
    \A p \in Procs :
        /\ WroteMode(p) =>
              \A m \in AllModes \ {req[p].mode} :
                  /\ zsets[RankingKey(m)] = snap[p].zsets[RankingKey(m)]
                  /\ \A n \in Names \cup KeyNames :
                         strs[PlayerKey(m, n)] = snap[p].strs[PlayerKey(m, n)]
        /\ (/\ Submitted(p)
            /\ nreq = Len(subs)
            /\ \A i \in 1..(Len(subs) - 1) : subs[i].mode # req[p].mode)
              => Accepted(p)

\* C22: every Fetch returns at most 50 entries, also when Submits on the same
\* mode run interleaved with the store commands of the Fetch.
C22_FetchAtMostTopN ==
    \A p \in Procs :
        Fetched(p) /\ resp[p].status = 200 => Len(resp[p].rankings) <= TopN

\* C30: a Fetch whose store commands interleave with Submits on the same mode
\* returns its entries in non-increasing order of efficiency: no entry is
\* followed by one of a higher efficiency.
C30_InterleavedFetchIsDescending ==
    \A p \in Procs :
        Fetched(p) /\ resp[p].status = 200 =>
            \A i \in 1..(Len(resp[p].rankings) - 1) :
                resp[p].rankings[i + 1].efficiency <= resp[p].rankings[i].efficiency

\* the store as one value
StoreNow == [zsets |-> zsets, strs |-> strs]
\* A Submit served alone leaves the store that SubmitOn computes.
SubmitIsSubmitOn ==
    \A p \in Procs :
        pc[p] = "done" /\ req[p].method = "POST" /\ resp[p].status # 500
            => StoreNow = SubmitOn(snap[p], req[p])

\* Both slots hold returned Submits for different players or modes.  Under
\* SpecPar the two ran in parallel with each other and with nothing else, and
\* snap[1] is the store both started from.
BothReturned ==
    /\ \A p \in Procs : pc[p] = "done" /\ req[p].method = "POST"
    /\ req[1].name # req[2].name \/ req[1].mode # req[2].mode

\* C23: two Submits for different players (same or different modes) that run
\* in parallel leave the store, for every interleaving of their store
\* commands, in the final state of one of the two serial orders of the same
\* Submits.
C23_ParallelIsSerial ==
    BothReturned =>
        \/ StoreNow = SubmitOn(SubmitOn(snap[1], req[1]), req[2])
        \/ StoreNow = SubmitOn(SubmitOn(snap[1], req[2]), req[1])
\* The same for Submits on the game's own modes and names: there the
\* parallel run ends as one of the serial orders.
PlainParallelIsSerial ==
    (BothReturned /\ req[1].mode \in ReqModes /\ req[2].mode \in ReqModes)
        => \/ StoreNow = SubmitOn(SubmitOn(snap[1], req[1]), req[2])
           \/ StoreNow = SubmitOn(SubmitOn(snap[1], req[2]), req[1])

\* C29: for every interleaving of concurrent Submits and Edits on one mode,
\* once all of them have returned (none with a store failure) the mode's
\* sorted collection holds at most 50 members.
C29_QuietAtMostTopN ==
    (\A p \in Procs : pc[p] \in {"idle", "done"} /\ resp[p].status # 500)
        => \A m \in ReqModes : ZCARD(zsets[RankingKey(m)]) <= TopN
\* An accepted Submit and an Edit overlapped (each arrived before the other
\* had written its player record), both have returned, the collection was
\* above 50 members in between and one of the two trimmed it.
C29_Witness ==
    /\ \E p, q \in Procs :
          /\ Accepted(p)
          /\ pc[q] = "done" /\ req[q].method = "PUT" /\ resp[q].status = 200
          /\ snap[q].strs[PlayerKey(req[p].mode, req[p].name)] = Nil
          /\ snap[p].strs[PlayerKey(req[q].mode, req[q].newName)] = Nil
    /\ \E p \in Procs : Issued(p, "ZREMRANGEBYRANK")
    /\ ZCARD(zsets[RankingKey("flick")]) = TopN

\* slot p holds a returned Fetch of a mode whose collection was empty (an
\* empty sorted set is no key of the store) when the Fetch arrived
FetchedEmpty(p) == Fetched(p) /\ snap[p].zsets[RankingKey(loc[p].mode)] = {}

\* C24: a Fetch of a mode whose sorted collection is empty or does not exist
\* returns an empty ranking list as a success result, not an error.
C24_EmptyFetchSucceeds ==
    \A p \in Procs :
        FetchedEmpty(p) => resp[p].status = 200 /\ resp[p].rankings = <<>>
\* such a Fetch has returned after the empty ZREVRANGE reply and the two
\* EXISTS commands
C24_Witness ==
    \E p \in Procs :
        FetchedEmpty(p) /\ log[p] = <<"ZREVRANGE", "EXISTS", "EXISTS">>

\* slot p holds a Fetch that returned a ranking built from the reply
\* loc[p].scores
Ranked(p) == Fetched(p) /\ resp[p].status = 200 /\ Len(loc[p].scores) > 0
\* entry i of the ranking of slot p carries the name and the efficiency
NamedEntry(p, i, name, efficiency) ==
    /\ "name" \in DOMAIN resp[p].rankings[i]
    /\ resp[p].rankings[i].name = name
    /\ resp[p].rankings[i].efficiency = efficiency

\* C25: when a sorted collection holds structured members together with
\* legacy members, a Fetch returns for every member string that is not the
\* serialization of a structured entry an entry whose name is that member
\* string and whose efficiency is its sorted-set score, and succeeds.
C25_LegacyIsDecoded ==
    \A p \in Procs :
        Fetched(p) =>
            /\ resp[p].status = 200
            /\ \A i \in 1..Len(resp[p].rankings) :
                   LET m == loc[p].scores[2 * i - 1]
                   IN  m.kind = "bare" =>
                           NamedEntry(p, i, m.name, loc[p].scores[2 * i].halves \div 2)
\* The same for the legacy members whose text is no JSON text.
TextLegacyIsDecoded ==
    \A p \in Procs :
        Fetched(p) =>
            /\ resp[p].status = 200
            /\ \A i \in 1..Len(resp[p].rankings) :
                   LET m == loc[p].scores[2 * i - 1]
                   IN  m.kind = "bare" /\ m.name \notin NumberNames =>
                           NamedEntry(p, i, m.name, loc[p].scores[2 * i].halves \div 2)

\* C26: for every entry a Fetch returns, structured or legacy, the efficiency
\* equals the sorted-set score paired with the member in the store reply
\* (scores are kept in halves), whatever the member's own efficiency field.
C26_EfficiencyIsScore ==
    \A p \in Procs :
        Ranked(p) =>
            \A i \in 1..Len(resp[p].rankings) :
                2 * resp[p].rankings[i].efficiency = loc[p].scores[2 * i].halves

\* The same for the entries whose sorted-set score is an integer.
IntegerScoreIsEfficiency ==
    \A p \in Procs :
        Ranked(p) =>
            \A i \in 1..Len(resp[p].rankings) :
                loc[p].scores[2 * i].halves % 2 = 0 =>
                    2 * resp[p].rankings[i].efficiency = loc[p].scores[2 * i].halves

\* C27: when the raw store reply to a Fetch has odd length k, the Fetch
\* returns exactly (k-1)/2 entries, built from the complete leading pairs,
\* and discards the trailing unpaired element, without error.
C27_OddReplyIsTruncated ==
    \A p \in Procs :
        (Ranked(p) /\ Len(loc[p].scores) % 2 = 1) =>
            /\ Len(resp[p].rankings) = (Len(loc[p].scores) - 1) \div 2
            /\ \A j \in 1..Len(resp[p].rankings) :
                   resp[p].rankings[j] =
                       DecodePair(loc[p].scores[2 * j - 1], loc[p].scores[2 * j])
\* a reply of three elements gave one entry
C27_Witness ==
    \E p \in Procs :
        Ranked(p) /\ Len(loc[p].scores) = 3 /\ Len(resp[p].rankings) = 1

\* slot p holds a Fetch whose one store call so far is the ZREVRANGE of line
\* 962, answered by loc[p].response
Called(p) ==
    /\ req[p].method = "GET" /\ ~req[p].test
    /\ "response" \in DOMAIN loc[p]
    /\ log[p] \in {<<"ZREVRANGE">>, <<"ZREVRANGE", "error">>}
\* the parsed body carries an error field
HasErrorField(body) == body.kind = "object" /\ body.error # Absent
\* the three cases in which the call is to signal failure
MustFail(response) ==
    ~Ok(response) \/ ~IsJson(response.body) \/ HasErrorField(response.body)
\* the requests a slot has sent to the store
Requests(p) == SelectSeq(log[p], LAMBDA c : c # "error")

\* C28: one store call sends exactly one request to the store; it signals
\* failure if the HTTP status is no success, if the body is not parsable, or
\* if the parsed body carries an error field; in every other case it returns
\* the parsed body and signals no failure.
C28_StoreCallOutcome ==
    \A p \in Procs :
        Called(p) =>
            /\ Len(Requests(p)) = 1
            /\ MustFail(loc[p].response) => Failed(p)
            /\ ~MustFail(loc[p].response) =>
                   ~Failed(p) /\ loc[p].result = loc[p].response.body
\* The same for the responses whose body is neither null nor an object with
\* a falsy error field.
PlainStoreCallOutcome ==
    \A p \in Procs :
        (/\ Called(p)
         /\ loc[p].response.body.kind # "null"
         /\ (HasErrorField(loc[p].response.body) => Truthy(loc[p].response.body.error))) =>
            /\ Len(Requests(p)) = 1
            /\ MustFail(loc[p].response) => Failed(p)
            /\ ~MustFail(loc[p].response) =>
                   ~Failed(p) /\ loc[p].result = loc[p].response.body

\* C31: in every execution, executions with several Submits on one mode
\* interleaved included, the rank an accepted Submit returns is an integer
\* between 1 and TopN, or the sentinel TopN + 1.
C31_RankInRange ==
    \A p \in DOMAIN pc :
        Accepted(p) => resp[p].rank \in 1..(TopN + 1)

\* the other members of the mode's collection at the time of the trim of the
\* Submit in slot p, when requests are served one at a time: the collection
\* at arrival without the member the Submit removed and without its own
OthersAtTrim(p) ==
    LET z == snap[p].zsets[RankingKey(req[p].mode)]
        kept == IF Issued(p, "ZREM") THEN ZREM(z, Restringify(loc[p].existing)) ELSE z
    IN  ZREM(kept, loc[p].scoreData)

\* C32: an accepted Submit executed without interleaving returns the sentinel
\* rank TopN + 1 only if, at the time of the trim, at least TopN other members
\* of the collection have an efficiency greater than or equal to the
\* submitted one; a Submit whose efficiency is strictly greater than every
\* member's gets rank 1.
C32_SentinelOnlyWhenOutranked ==
    \A p \in Procs :
        Accepted(p) =>
            LET s == ScoreOfInt(loc[p].efficiency)
            IN  /\ resp[p].rank = TopN + 1 =>
                       Cardinality({e \in OthersAtTrim(p) : e.score >= s}) >= TopN
                /\ (\A e \in OthersAtTrim(p) : e.score < s) => resp[p].rank = 1
\* What the trim of line 1269 gives instead: the sentinel is returned only if
\* at least TopN other members have an efficiency lower than or equal to the
\* submitted one.
SentinelOnlyWhenOutranking ==
    \A p \in Procs :
        (Accepted(p) /\ resp[p].rank = TopN + 1) =>
            Cardinality({e \in OthersAtTrim(p) :
                            e.score <= ScoreOfInt(loc[p].efficiency)}) >= TopN

\* C33: after any sequence of completed, non-overlapping Submit, Delete, Edit
\* and ResetAll operations without store failure, whenever a mode's collection
\* contains a structured member for a player name, PlayerBestKey(mode, name)
\* exists and its value is equal to that member.
C33_MemberHasBestKey ==
    Quiet =>
        \A m \in AllModes : \A e \in zsets[RankingKey(m)] :
            ParseOk(e.member) => strs[PlayerKey(m, e.member.name)] = e.member

ReadCommands == {"PING", "EXISTS", "ZCARD", "ZREVRANGE", "ZRANGE"}
\* every store command slot p has issued is one of cmds
IssuedOnly(p, cmds) == \A i \in 1..Len(log[p]) : log[p][i] \in cmds

ConfigErrors == {"Server configuration error", "Environment variables not set"}

\* C35: when the store endpoint or the store credential is not configured,
\* every request other than OPTIONS, to the ranking handler and to the
\* connection test endpoint alike, is answered with a configuration error
\* and no store command is issued.
C35_NoStoreEnvNoCommand ==
    \A p \in Procs :
        (~Configured /\ req[p] # NoReq) =>
            /\ pc[p] = "done"
            /\ resp[p].status = 500 /\ resp[p].error \in ConfigErrors
            /\ log[p] = <<>>
            /\ zsets = snap[p].zsets /\ strs = snap[p].strs
\* a Submit or a connection test was refused, after an earlier refused
\* request, where only the credential is missing
C35_Witness ==
    /\ UPSTASH_URL # "" /\ UPSTASH_TOKEN = ""
    /\ \E p \in Procs :
          /\ pc[p] = "done" /\ resp[p].status = 500 /\ nreq >= 2
          /\ (req[p].method = "POST" \/ IsConn(req[p]))

\* the store commands of the longest path of a handler, that of an accepted
\* Submit that supersedes an entry, trims, and does not find its entry in the
\* verification read (lines 1158-1366)
LongestPath ==
    <<"GET", "ZREM", "ZADD", "SET", "ZCARD", "ZREMRANGEBYRANK", "ZREVRANK",
      "ZCARD", "ZREVRANGE", "ZSCORE">>
\* a response, once sent, is not replaced: it stays until the slot is freed
OneResponse ==
    \A p \in Procs :
        resp[p] # NoResp => (resp'[p] = resp[p] \/ (resp'[p] = NoResp /\ pc'[p] = "idle"))

\* C36: where every store call eventually returns a result or a failure,
\* every request (Fetch, Submit, Delete, Edit, ResetAll, unsupported method)
\* eventually produces exactly one response, after finitely many store
\* commands.
C36_EveryRequestIsAnswered ==
    /\ \A p \in Procs : Awaiting(p) ~> (pc[p] = "done" /\ resp[p] # NoResp)
    /\ [][OneResponse]_vars
    /\ [](\A p \in Procs :
            /\ Len(Requests(p)) <= Len(LongestPath)
            /\ (pc[p] = "done") = (resp[p] # NoResp))
\* a Submit that trimmed and did not find its entry was answered after nine
\* store commands
C36_Witness ==
    \E p \in Procs :
        /\ pc[p] = "done" /\ req[p].method = "POST" /\ resp[p].status = 200
        /\ Len(log[p]) = Len(LongestPath) - 1
        /\ Issued(p, "ZREMRANGEBYRANK") /\ Issued(p, "ZSCORE")

\* the structured members of the sorted collections with their scores
StructuredEntries == UNION {{e \in zsets[k] : e.member.kind = "full"} : k \in ZKeys}

\* C37: every structured member written into a sorted collection by Submit
\* or Edit is stored under a score equal to the efficiency field embedded in
\* the member (scores are kept in halves), for every accepted input.
C37_ScoreIsEmbeddedEfficiency ==
    \A e \in StructuredEntries : e.score = 2 * e.member.efficiency
\* the same for the members whose score is an integer: the statement fails
\* only where Edit wrote a score with a fraction
WholeScoreIsEmbeddedEfficiency ==
    \A e \in StructuredEntries :
        e.score % 2 = 0 => e.score = 2 * e.member.efficiency

====
